---- MODULE Spec2Model ----
(***************************************************************************)
(* Lite SD-WAN: the agent coordinator (src/agent/main.py), its route       *)
(* executor (src/agent/executor.py), its controller client                 *)
(* (src/agent/client.py) and the controller (src/controller/*.py).         *)
(*                                                                         *)
(* Python dicts keep insertion order, so a dict is modelled as a sequence  *)
(* of <<key, value>> pairs with unique keys.  The kernel routing table is  *)
(* the sequence of lines `ip route show table main` prints, each line a    *)
(* record [dst, suffix, via, dev].                                         *)
(***************************************************************************)
EXTENDS Integers, Sequences, FiniteSets, TLC

(***************************************************************************)
(* Bounds of the model.                                                    *)
(***************************************************************************)
\* Most lines the kernel table holds when the agent is constructed.
MaxKernelLines == 2

(***************************************************************************)
(* Addresses.  A string is parsed by table lookup (TLC cannot take a       *)
(* string apart); a string outside the table is not an IP address.         *)
(***************************************************************************)
AgentId == "10.254.0.1"
PeerC == "10.254.0.2"
PeerT == "10.254.0.3"
OutsideIp == "192.168.1.5"
NotAnIp == "default"

Addrs == {AgentId, PeerC, PeerT, OutsideIp, NotAnIp}

IpOctets ==
    (AgentId :> <<10, 254, 0, 1>>) @@ (PeerC :> <<10, 254, 0, 2>>) @@
    (PeerT :> <<10, 254, 0, 3>>) @@ (OutsideIp :> <<192, 168, 1, 5>>)

\* an address as two 16-bit halves (TLC's integers are 32-bit signed)
IpHigh(o) == o[1] * 256 + o[2]
IpLow(o) == o[3] * 256 + o[4]

RECURSIVE Pow2(_)
Pow2(n) == IF n = 0 THEN 1 ELSE 2 * Pow2(n - 1)

\* Executor.__init__ defaults: wg_interface = "wg0", allowed_subnet = 10.254.0.0/24
WgInterface == "wg0"
AllowedSubnet == [net |-> <<10, 254, 0, 0>>, plen |-> 24]

(***************************************************************************)
(* Ordered dicts.                                                          *)
(***************************************************************************)
EmptyDict == << >>

DictKeys(d) == [i \in 1..Len(d) |-> d[i][1]]

DictKeySet(d) == {d[i][1] : i \in 1..Len(d)}

DictHas(d, k) == k \in DictKeySet(d)

DictGet(d, k) == d[CHOOSE i \in 1..Len(d) : d[i][1] = k][2]

\* d[k] = v: an existing key keeps its position, a new key goes last
DictSet(d, k, v) ==
    IF DictHas(d, k)
    THEN [i \in 1..Len(d) |-> IF d[i][1] = k THEN <<k, v>> ELSE d[i]]
    ELSE Append(d, <<k, v>>)

\* del d[k]
DictRemove(d, k) == SelectSeq(d, LAMBDA e : e[1] # k)

(***************************************************************************)
(* The kernel routing table and the `ip` command.                          *)
(***************************************************************************)
RouteLine(dst, suffix, via, dev) ==
    [dst |-> dst, suffix |-> suffix, via |-> via, dev |-> dev]

IsHostLineFor(line, dst_ip, dev) ==
    line.dst = dst_ip /\ line.suffix \in {"", "/32"} /\ line.dev = dev

\* how a subprocess.run of an `ip route` command can end
CmdOutcomes == {"ok", "nonzero", "timeout"}

Command(op, dst, via) == [op |-> op, dst |-> dst, via |-> via, dev |-> WgInterface]

\* "None" of generate_route_add_command / generate_route_del_command
NoCommand == [op |-> "none", dst |-> "", via |-> "", dev |-> ""]

\* `ip route del D/32 dev IFACE`, `ip route replace D/32 via H dev IFACE` as
\* the kernel runs them: a delete of a route that is not there exits non-zero;
\* a command that exits non-zero or is killed on timeout changes nothing.
RunIp(command, env, lines) ==
    LET hit == {i \in 1..Len(lines) : IsHostLineFor(lines[i], command.dst, command.dev)}
        rc == IF env = "ok" /\ command.op = "del" /\ hit = {} THEN "nonzero" ELSE env
        new == RouteLine(command.dst, "", command.via, command.dev)
    IN  [rc |-> rc,
         kernel |->
            IF rc # "ok" THEN lines
            ELSE IF command.op = "del"
                 THEN SelectSeq(lines, LAMBDA l : ~IsHostLineFor(l, command.dst, command.dev))
                 ELSE IF hit = {} THEN Append(lines, new)
                      ELSE [i \in 1..Len(lines) |-> IF i \in hit THEN new ELSE lines[i]]]

(***************************************************************************)
(* Executor (src/agent/executor.py)                                        *)
(***************************************************************************)
RECURSIVE ParseRouteLines(_, _)
ParseRouteLines(lines, routes) ==
    IF lines = << >> THEN routes
    ELSE LET line == Head(lines)
             rest == Tail(lines)
         IN  IF line.dev # WgInterface THEN ParseRouteLines(rest, routes)
             ELSE IF line.suffix # "" /\ line.suffix # "/32"
                  THEN ParseRouteLines(rest, routes)
             ELSE IF line.via # ""
                  THEN ParseRouteLines(rest, DictSet(routes, line.dst, line.via))
             ELSE ParseRouteLines(rest, DictSet(routes, line.dst, "direct"))

\* get_current_routes: [routes, cache]; a failed read returns {} and leaves
\* self.current_routes as it was
GetCurrentRoutes(lines, env, cache) ==
    IF env = "ok"
    THEN LET routes == ParseRouteLines(lines, EmptyDict)
         IN  [routes |-> routes, cache |-> routes]
    ELSE [routes |-> EmptyDict, cache |-> cache]

IsIpInAllowedSubnet(ip_str) ==
    IF ip_str \notin DOMAIN IpOctets THEN FALSE
    ELSE LET ip == IpOctets[ip_str]
             net == AllowedSubnet.net
             plen == AllowedSubnet.plen
         IN  IF plen >= 16
             THEN /\ IpHigh(ip) = IpHigh(net)
                  /\ IpLow(ip) \div Pow2(32 - plen) = IpLow(net) \div Pow2(32 - plen)
             ELSE IpHigh(ip) \div Pow2(16 - plen) = IpHigh(net) \div Pow2(16 - plen)

\* generate_route_add_command without the check of next_hop
GenerateRouteAddCommand_NoHopCheck(dst_ip, next_hop) ==
    IF ~IsIpInAllowedSubnet(dst_ip) THEN NoCommand
    ELSE Command("replace", dst_ip, next_hop)

GenerateRouteAddCommand(dst_ip, next_hop) ==
    IF ~IsIpInAllowedSubnet(dst_ip) THEN NoCommand
    ELSE IF ~IsIpInAllowedSubnet(next_hop) THEN NoCommand
    ELSE Command("replace", dst_ip, next_hop)

GenerateRouteDelCommand(dst_ip) ==
    IF ~IsIpInAllowedSubnet(dst_ip) THEN NoCommand
    ELSE Command("del", dst_ip, "")

\* an issued command with its exit, as the event it leaves in the tick's log
CmdEvent(command, rc) ==
    [ev |-> "cmd", op |-> command.op, dst |-> command.dst, via |-> command.via,
     res |-> rc, n |-> 0]

\* the first loop of calculate_route_diff, over desired_routes.items():
\* [add, modify]
RECURSIVE DiffDesired(_, _, _)
DiffDesired(items, current_routes_, acc) ==
    IF items = << >> THEN acc
    ELSE LET dst_ip == Head(items)[1]
             next_hop == Head(items)[2]
         IN  IF ~DictHas(current_routes_, dst_ip)
             THEN DiffDesired(Tail(items), current_routes_,
                              [acc EXCEPT !.add = DictSet(@, dst_ip, next_hop)])
             ELSE IF DictGet(current_routes_, dst_ip) # next_hop
             THEN DiffDesired(Tail(items), current_routes_,
                              [acc EXCEPT !.modify = DictSet(@, dst_ip, next_hop)])
             ELSE DiffDesired(Tail(items), current_routes_, acc)

\* calculate_route_diff that files every destination of both tables under
\* modify, whether or not its next hop changed
CalculateRouteDiff_NoHopCompare(desired_routes, current_routes_) ==
    LET d == DiffDesired(desired_routes, current_routes_,
                         [add |-> EmptyDict, modify |-> EmptyDict])
    IN  [add |-> d.add,
         modify |-> SelectSeq(desired_routes, LAMBDA kv : DictHas(current_routes_, kv[1])),
         delete |-> SelectSeq(DictKeys(current_routes_),
                              LAMBDA dst_ip : ~DictHas(desired_routes, dst_ip))]

\* calculate_route_diff: [add, modify, delete]
CalculateRouteDiff(desired_routes, current_routes_) ==
    LET d == DiffDesired(desired_routes, current_routes_,
                         [add |-> EmptyDict, modify |-> EmptyDict])
    IN  [add |-> d.add,
         modify |-> d.modify,
         delete |-> SelectSeq(DictKeys(current_routes_),
                              LAMBDA dst_ip : ~DictHas(desired_routes, dst_ip))]

\* apply_route: [ok, kernel, issued]
ApplyRoute(dst_ip, next_hop, env, lines) ==
    IF next_hop = "direct"
    THEN LET command == GenerateRouteDelCommand(dst_ip)
             r == RunIp(command, env, lines)
         IN  IF command = NoCommand
             THEN [ok |-> FALSE, kernel |-> lines, issued |-> << >>]
             ELSE [ok |-> r.rc # "timeout", kernel |-> r.kernel,
                   issued |-> <<CmdEvent(command, r.rc)>>]
    ELSE LET command == GenerateRouteAddCommand(dst_ip, next_hop)
             r == RunIp(command, env, lines)
         IN  IF command = NoCommand
             THEN [ok |-> FALSE, kernel |-> lines, issued |-> << >>]
             ELSE [ok |-> r.rc = "ok", kernel |-> r.kernel,
                   issued |-> <<CmdEvent(command, r.rc)>>]

\* the loop of flush_all_routes leaving after its first key
FlushEach_FirstOnly(keys, envs, lines, acc) ==
    IF keys = << >> THEN [ok |-> acc.ok, kernel |-> lines, issued |-> acc.issued]
    ELSE LET r == ApplyRoute(Head(keys), "direct", envs[Head(keys)], lines)
         IN  [ok |-> acc.ok /\ r.ok, kernel |-> r.kernel,
              issued |-> acc.issued \o r.issued]

\* the loop of flush_all_routes over current_routes.keys()
RECURSIVE FlushEach(_, _, _, _)
FlushEach(keys, envs, lines, acc) ==
    IF keys = << >> THEN [ok |-> acc.ok, kernel |-> lines, issued |-> acc.issued]
    ELSE LET r == ApplyRoute(Head(keys), "direct", envs[Head(keys)], lines)
         IN  FlushEach(Tail(keys), envs, r.kernel,
                       [ok |-> acc.ok /\ r.ok, issued |-> acc.issued \o r.issued])

\* flush_all_routes: [ok, kernel, issued, cache]
FlushAllRoutes(lines, readEnv, envs, cache) ==
    LET cur == GetCurrentRoutes(lines, readEnv, cache)
        r == FlushEach(DictKeys(cur.routes), envs, lines, [ok |-> TRUE, issued |-> << >>])
    IN  IF cur.routes = EmptyDict
        THEN [ok |-> TRUE, kernel |-> lines, issued |-> << >>, cache |-> cur.cache]
        ELSE [ok |-> r.ok, kernel |-> r.kernel, issued |-> r.issued, cache |-> cur.cache]

(***************************************************************************)
(* Controller client (src/agent/client.py)                                 *)
(***************************************************************************)
\* ControllerClient.__init__ defaults
RetryAttempts == 3
RetryBackoff == <<1, 2, 4>>

Min(a, b) == IF a < b THEN a ELSE b

\* Optional values: None, or a value
None == [some |-> FALSE, val |-> << >>]
Some(v) == [some |-> TRUE, val |-> v]

\* An HTTP exchange as the client sees it: a status ("timeout" and "connerr"
\* stand for the requests exceptions), and for a 200 of the routes endpoint
\* whether the body holds "routes", and the list
Response(status, valid, routes) == [status |-> status, valid |-> valid, routes |-> routes]

\* send_telemetry that takes any HTTP answer for success
SendTelemetry_AnyStatus(resp) == resp.status \notin {"timeout", "connerr"}

\* send_telemetry: True iff HTTP 200
SendTelemetry(resp) == resp.status = "200"

\* fetch_routes that answers a 404 with an empty list instead of None
FetchRoutes_404IsEmptyList(resp) ==
    IF resp.status = "200"
    THEN IF ~resp.valid THEN None ELSE Some(resp.routes)
    ELSE IF resp.status = "404" THEN Some(<< >>) ELSE None

\* fetch_routes: the parsed list on a 200 with a "routes" field, else None
FetchRoutes(resp) ==
    IF resp.status = "200"
    THEN IF ~resp.valid THEN None ELSE Some(resp.routes)
    ELSE None

\* the loop of _retry_with_backoff going round once more after the last
\* attempt (`attempt <= retry_attempts - 1`)
RetryPass_OneTooMany(retry_attempts, retry_backoff, attempt, failed) ==
    IF ~failed THEN [next |-> "return", delay |-> 0]
    ELSE IF attempt <= retry_attempts - 1
         THEN [next |-> "retry",
               delay |-> retry_backoff[Min(attempt, Len(retry_backoff) - 1) + 1]]
         ELSE [next |-> "raise", delay |-> 0]

\* One pass of the loop of _retry_with_backoff of a client constructed with
\* retry_attempts and retry_backoff, for 0-based `attempt` whose operation
\* returned None or raised (failed) or not: return the result, wait and go
\* round again, or raise RetryExhausted
RetryPass(retry_attempts, retry_backoff, attempt, failed) ==
    IF ~failed THEN [next |-> "return", delay |-> 0]
    ELSE IF attempt < retry_attempts - 1
         THEN [next |-> "retry",
               delay |-> retry_backoff[Min(attempt, Len(retry_backoff) - 1) + 1]]
         ELSE [next |-> "raise", delay |-> 0]

\* the same for the client the agent constructs
RetryWithBackoff(attempt, failed) == RetryPass(RetryAttempts, RetryBackoff, attempt, failed)

(***************************************************************************)
(* Controller: topology database (src/controller/topology_db.py), solver   *)
(* (src/controller/solver.py), API (src/controller/api.py).                *)
(*                                                                         *)
(* rtt is in whole milliseconds; loss_rate is held in percent (0..100), so *)
(* loss_rate * penalty_factor is loss * penalty_factor / 100.              *)
(***************************************************************************)
\* api.py: RouteSolver(penalty_factor=100, hysteresis=0.15); 0.15 in percent
PenaltyFactor == 100
HysteresisPct == 15

NoRtt == [some |-> FALSE, val |-> 0]
Rtt(ms) == [some |-> TRUE, val |-> ms]

Metric(target_ip, rtt_ms, loss_rate) ==
    [target_ip |-> target_ip, rtt_ms |-> rtt_ms, loss_rate |-> loss_rate]

TelemetryRequest(agent_id, timestamp, metrics) ==
    [agent_id |-> agent_id, timestamp |-> timestamp, metrics |-> metrics]

RouteConfig(dst_ip, next_hop, reason) ==
    [dst_cidr |-> <<dst_ip, "32">>, next_hop |-> next_hop, reason |-> reason]

\* store_telemetry that keeps the entry with the newer timestamp
StoreTelemetry_KeepNewest(data, agent_id, timestamp, metrics) ==
    IF DictHas(data, agent_id) /\ DictGet(data, agent_id).timestamp > timestamp
    THEN data
    ELSE DictSet(data, agent_id, [timestamp |-> timestamp, metrics |-> metrics])

\* TopologyDatabase.store_telemetry: overwrite the agent's entry
StoreTelemetry(data, agent_id, timestamp, metrics) ==
    DictSet(data, agent_id, [timestamp |-> timestamp, metrics |-> metrics])

AgentExists(data, agent_id) == DictHas(data, agent_id)

\* get_all_data copies; values of the model are immutable, a copy is the value
GetAllData(data) == data

Infinity == [inf |-> TRUE, c |-> 0]
Finite(c) == [inf |-> FALSE, c |-> c]

CalculateCost(latency_ms, loss_rate, penalty_factor) ==
    latency_ms + (loss_rate * penalty_factor) \div 100

\* the dict comprehension of receive_telemetry: target_ip -> {rtt, loss}
RECURSIVE MetricsDict(_, _)
MetricsDict(metrics, acc) ==
    IF metrics = << >> THEN acc
    ELSE LET m == Head(metrics)
         IN  MetricsDict(Tail(metrics),
                         DictSet(acc, m.target_ip, [rtt |-> m.rtt_ms, loss |-> m.loss_rate]))

\* A DiGraph: its nodes in insertion order, and its edges (u, v) -> weight
EmptyGraph == [nodes |-> << >>, edges |-> EmptyDict]

SeqToSet(q) == {q[i] : i \in 1..Len(q)}

AddNode(G, n) ==
    [G EXCEPT !.nodes = IF n \in SeqToSet(@) THEN @ ELSE Append(@, n)]

\* add_edge that does not make its endpoints nodes
AddEdge_NoEndpoints(G, u, v, w) == [G EXCEPT !.edges = DictSet(@, <<u, v>>, w)]

\* G.add_edge(u, v, weight=w): both endpoints become nodes
AddEdge(G, u, v, w) ==
    [AddNode(AddNode(G, u), v) EXCEPT !.edges = DictSet(@, <<u, v>>, w)]

RECURSIVE AddNodes(_, _)
AddNodes(G, keys) ==
    IF keys = << >> THEN G ELSE AddNodes(AddNode(G, Head(keys)), Tail(keys))

RECURSIVE AddEdgesOf(_, _, _)
AddEdgesOf(G, source, metrics) ==
    IF metrics = << >> THEN G
    ELSE LET target == Head(metrics)[1]
             metric_data == Head(metrics)[2]
             cost == IF ~metric_data.rtt.some THEN Infinity
                     ELSE Finite(CalculateCost(metric_data.rtt.val, metric_data.loss,
                                               PenaltyFactor))
         IN  AddEdgesOf(AddEdge(G, source, target, cost), source, Tail(metrics))

RECURSIVE AddAllEdges(_, _)
AddAllEdges(G, topology_data) ==
    IF topology_data = << >> THEN G
    ELSE AddAllEdges(AddEdgesOf(G, Head(topology_data)[1], Head(topology_data)[2].metrics),
                     Tail(topology_data))

BuildGraph(topology_data) ==
    AddAllEdges(AddNodes(EmptyGraph, DictKeys(topology_data)), topology_data)

(***************************************************************************)
(* nx.shortest_path / nx.shortest_path_length with weight='weight': a      *)
(* minimum-weight path (weights are >= 0, so a simple one).  A path over   *)
(* an infinite edge has length inf and is skipped by the caller like no    *)
(* path at all, so only finite edges are followed here.  Which of several  *)
(* minimum paths networkx returns is left open: ShortestPaths is the set.  *)
(***************************************************************************)
\* an edge of infinite weight followed like any other
HasFiniteEdge_AnyEdge(G, u, v) == DictHas(G.edges, <<u, v>>)

HasFiniteEdge(G, u, v) == DictHas(G.edges, <<u, v>>) /\ ~DictGet(G.edges, <<u, v>>).inf

RECURSIVE SimplePaths(_, _, _)
SimplePaths(G, path, t) ==
    LET last == path[Len(path)]
    IN  IF last = t THEN {path}
        ELSE UNION {SimplePaths(G, Append(path, v), t) :
                    v \in {x \in SeqToSet(G.nodes) :
                             x \notin SeqToSet(path) /\ HasFiniteEdge(G, last, x)}}

RECURSIVE PathCost(_, _)
PathCost(G, path) ==
    IF Len(path) < 2 THEN 0
    ELSE DictGet(G.edges, <<path[1], path[2]>>).c + PathCost(G, Tail(path))

\* any simple path, not only one of minimum weight
ShortestPaths_AnyPath(G, s, t) ==
    LET all == SimplePaths(G, <<s>>, t)
    IN  {p \in all : \A q \in all : TRUE}

ShortestPaths(G, s, t) ==
    LET all == SimplePaths(G, <<s>>, t)
    IN  {p \in all : \A q \in all : PathCost(G, p) <= PathCost(G, q)}

\* the targets compute_routes_for finds a finite path to
ReachableTargets(G, s) ==
    {t \in SeqToSet(G.nodes) : t # s /\ ShortestPaths(G, s, t) # {}}

\* every way networkx may choose one minimum path per target
PathPicks(G, s) ==
    LET T == ReachableTargets(G, s)
    IN  {f \in [T -> UNION {ShortestPaths(G, s, t) : t \in T}] :
            \A t \in T : f[t] \in ShortestPaths(G, s, t)}

\* previous_costs.get(cost_key, 0)
OldCost_DefaultZero(previous_costs, cost_key) ==
    IF DictHas(previous_costs, cost_key) THEN Finite(DictGet(previous_costs, cost_key))
    ELSE Finite(0)

\* previous_costs.get(cost_key, inf)
OldCost(previous_costs, cost_key) ==
    IF DictHas(previous_costs, cost_key) THEN Finite(DictGet(previous_costs, cost_key))
    ELSE Infinity

\* new_cost != old_cost
Improves_AnyChange(new_cost, old_cost) == old_cost.inf \/ new_cost # old_cost.c

\* new_cost < old_cost
Improves_NoHysteresis(new_cost, old_cost) ==
    old_cost.inf \/ new_cost * 100 < old_cost.c * 100

\* new_cost < old_cost * (1 - hysteresis)
Improves(new_cost, old_cost) ==
    old_cost.inf \/ new_cost * 100 < old_cost.c * (100 - HysteresisPct)

\* the loop of compute_routes_for that records the cost of every reachable
\* target, emitted or not
RECURSIVE RoutesLoop_AlwaysRecords(_, _, _, _, _)
RoutesLoop_AlwaysRecords(G, source_agent, targets, pick, acc) ==
    IF targets = << >> THEN acc
    ELSE LET target == Head(targets)
             rest == Tail(targets)
         IN  IF target = source_agent \/ target \notin DOMAIN pick
             THEN RoutesLoop_AlwaysRecords(G, source_agent, rest, pick, acc)
             ELSE LET path == pick[target]
                      new_cost == PathCost(G, path)
                      cost_key == <<source_agent, target>>
                      old_cost == OldCost(acc.previous_costs, cost_key)
                      route == IF Len(path) = 2
                               THEN RouteConfig(target, "direct", "default")
                               ELSE RouteConfig(target, path[2], "optimized_path")
                  IN  RoutesLoop_AlwaysRecords(G, source_agent, rest, pick,
                          [routes |-> IF Improves(new_cost, old_cost)
                                      THEN Append(acc.routes, route) ELSE acc.routes,
                           previous_costs |->
                               DictSet(acc.previous_costs, cost_key, new_cost)])

\* the loop of compute_routes_for over G.nodes(): [routes, previous_costs]
RECURSIVE RoutesLoop(_, _, _, _, _)
RoutesLoop(G, source_agent, targets, pick, acc) ==
    IF targets = << >> THEN acc
    ELSE LET target == Head(targets)
             rest == Tail(targets)
         IN  IF target = source_agent THEN RoutesLoop(G, source_agent, rest, pick, acc)
             ELSE IF target \notin DOMAIN pick
                  THEN RoutesLoop(G, source_agent, rest, pick, acc)
             ELSE LET path == pick[target]
                      new_cost == PathCost(G, path)
                      cost_key == <<source_agent, target>>
                      old_cost == OldCost(acc.previous_costs, cost_key)
                      route == IF Len(path) = 2
                               THEN RouteConfig(target, "direct", "default")
                               ELSE RouteConfig(target, path[2], "optimized_path")
                  IN  IF Improves(new_cost, old_cost)
                      THEN RoutesLoop(G, source_agent, rest, pick,
                               [routes |-> Append(acc.routes, route),
                                previous_costs |->
                                    DictSet(acc.previous_costs, cost_key, new_cost)])
                      ELSE RoutesLoop(G, source_agent, rest, pick, acc)

ComputeRoutesFor(source_agent, topology_data, previous_costs, pick) ==
    LET G == BuildGraph(topology_data)
    IN  IF source_agent \notin SeqToSet(G.nodes)
        THEN [routes |-> << >>, previous_costs |-> previous_costs]
        ELSE RoutesLoop(G, source_agent, G.nodes, pick,
                        [routes |-> << >>, previous_costs |-> previous_costs])

\* reset_history: previous_costs.clear()
ResetHistory(previous_costs) == EmptyDict

(***************************************************************************)
(* Prober (src/agent/prober.py)                                            *)
(*                                                                         *)
(* The measurements are Python floats.  A float is modelled as a           *)
(* non-negative integer number of units of 1 / Unit that has at most       *)
(* MantissaBits significant bits, and every sum and quotient is rounded to *)
(* the nearest such number, ties to the even mantissa, as IEEE 754 does    *)
(* with 53 bits.                                                           *)
(***************************************************************************)
MantissaBits == 3
MaxWindow == 3

\* 1.0
Unit == Pow2(2 * MantissaBits)

\* how many low bits a value of integer part q loses
RECURSIVE Exponent(_)
Exponent(q) == IF q < Pow2(MantissaBits) THEN 0 ELSE 1 + Exponent(q \div 2)

\* num / den, rounded to a float
RoundTo(num, den) ==
    LET d == den * Pow2(Exponent(num \div den))
        k == num \div d
        r == num % d
    IN  (IF 2 * r > d \/ (2 * r = d /\ k % 2 = 1) THEN k + 1 ELSE k) * (d \div den)

FloatAdd(a, b) == RoundTo(a + b, 1)

FloatDiv(a, n) == RoundTo(a, n)

\* sum(buffer): 0 + buffer[0] + buffer[1] + ..., left to right
RECURSIVE FloatSum(_, _)
FloatSum(start, q) ==
    IF q = << >> THEN start ELSE FloatSum(FloatAdd(start, Head(q)), Tail(q))

\* SlidingWindowBuffer: maxlen and the deque
NewBuffer(maxlen) == [maxlen |-> maxlen, buffer |-> << >>]

BufferAppend_NoEvict(b, value) == [b EXCEPT !.buffer = Append(@, value)]

\* deque(maxlen).append: a full deque drops its leftmost item
BufferAppend(b, value) ==
    [b EXCEPT !.buffer = IF Len(@) = b.maxlen THEN Append(Tail(@), value)
                         ELSE Append(@, value)]

GetMovingAverage(b) ==
    IF b.buffer = << >> THEN None
    ELSE Some(FloatDiv(FloatSum(0, b.buffer), Len(b.buffer)))

\* Prober.__init__: one RTT buffer and one loss buffer per peer
NewBuffers(peer_ips, window_size) ==
    [ip \in SeqToSet(peer_ips) |->
        [rtt |-> NewBuffer(window_size), loss |-> NewBuffer(window_size)]]

\* what ping3.ping does: returns the delay, in units of 1 / (1000 * Unit)
\* of a second, returns None on a timeout, or raises
Echo(rtt_seconds) == [kind |-> "delay", rtt_seconds |-> rtt_seconds]
EchoTimeout == [kind |-> "none", rtt_seconds |-> 0]
EchoRaises == [kind |-> "raises", rtt_seconds |-> 0]

\* probe_once that takes an exception of the echo call for a reply
ProbeOnce_RaisesIsNoLoss(target_ip, echo) ==
    IF echo.kind = "delay"
    THEN [target |-> target_ip, rtt_ms |-> Some(RoundTo(echo.rtt_seconds * 1000, 1000)),
          loss |-> 0]
    ELSE [target |-> target_ip, rtt_ms |-> None,
          loss |-> IF echo.kind = "raises" THEN 0 ELSE Unit]

\* probe_once: [target, rtt_ms, loss]; rtt_ms = rtt_seconds * 1000 is in
\* units of 1 / Unit of a millisecond
ProbeOnce(target_ip, echo) ==
    IF echo.kind = "delay"
    THEN [target |-> target_ip, rtt_ms |-> Some(RoundTo(echo.rtt_seconds * 1000, 1000)),
          loss |-> 0]
    ELSE [target |-> target_ip, rtt_ms |-> None, loss |-> Unit]

\* probe_all that appends an RTT sample of 0 for a failed probe
RECURSIVE ProbeAll_RttOnFailure(_, _, _)
ProbeAll_RttOnFailure(peer_ips, echoes, acc) ==
    IF peer_ips = << >> THEN acc
    ELSE LET peer_ip == Head(peer_ips)
             result == ProbeOnce(peer_ip, echoes[peer_ip])
             b == acc.buffers[peer_ip]
             rtt == IF result.rtt_ms.some THEN BufferAppend(b.rtt, result.rtt_ms.val)
                    ELSE BufferAppend(b.rtt, 0)
         IN  ProbeAll_RttOnFailure(Tail(peer_ips), echoes,
                      [results |-> Append(acc.results, result),
                       buffers |-> [acc.buffers EXCEPT ![peer_ip] =
                                       [rtt |-> rtt,
                                        loss |-> BufferAppend(b.loss, result.loss)]]])

\* probe_all: [results, buffers]
RECURSIVE ProbeAll(_, _, _)
ProbeAll(peer_ips, echoes, acc) ==
    IF peer_ips = << >> THEN acc
    ELSE LET peer_ip == Head(peer_ips)
             result == ProbeOnce(peer_ip, echoes[peer_ip])
             b == acc.buffers[peer_ip]
             rtt == IF result.rtt_ms.some THEN BufferAppend(b.rtt, result.rtt_ms.val)
                    ELSE b.rtt
         IN  ProbeAll(Tail(peer_ips), echoes,
                      [results |-> Append(acc.results, result),
                       buffers |-> [acc.buffers EXCEPT ![peer_ip] =
                                       [rtt |-> rtt,
                                        loss |-> BufferAppend(b.loss, result.loss)]]])

\* get_smoothed_metrics: a Metric per peer (rtt_ms and loss_rate are floats)
RECURSIVE GetSmoothedMetrics(_, _)
GetSmoothedMetrics(peer_ips, bufs) ==
    IF peer_ips = << >> THEN << >>
    ELSE LET peer_ip == Head(peer_ips)
             avg_rtt == GetMovingAverage(bufs[peer_ip].rtt)
             avg_loss == GetMovingAverage(bufs[peer_ip].loss)
         IN  <<Metric(peer_ip,
                      IF avg_rtt.some THEN Rtt(avg_rtt.val) ELSE NoRtt,
                      IF avg_loss.some THEN avg_loss.val ELSE 0)>>
                 \o GetSmoothedMetrics(Tail(peer_ips), bufs)

(***************************************************************************)
(* State.                                                                  *)
(***************************************************************************)
VARIABLES
    running,            \* Agent.running
    latest_metrics,     \* AgentState.latest_metrics (None or a Metric list)
    in_fallback_mode,   \* AgentState.in_fallback_mode
    kernel,             \* the kernel routing table (lines of `ip route show`)
    current_routes,     \* Executor.current_routes
    pc,                 \* where _executor_loop stands
    attempt,            \* `attempt` of the running _retry_with_backoff
    telemetry,          \* `telemetry` of the iteration (None before it is built)
    routes,             \* `routes` of the iteration (None before the fetch)
    log,                \* what the current iteration (or direct call) has done
    topology_db,        \* TopologyDatabase._data
    previous_costs,     \* RouteSolver.previous_costs
    buffers,            \* Prober.buffers
    threads,            \* the calls of TopologyDatabase methods in progress
    lock,               \* TopologyDatabase._lock: 0, or the thread that holds it
    heap,               \* the dict objects of the controller process, by identity
    snapshot,           \* what a caller of get_all_data holds (0: nothing)
    loops,              \* the threads Agent.start has created, in order of creation
    state_lock,         \* AgentState.lock: 0, or the loop (index in loops) that holds it
    prober_thread,      \* Agent.prober_thread (index in loops; 0: None)
    executor_thread,    \* Agent.executor_thread (index in loops; 0: None)
    main,               \* the thread that calls Agent.start and Agent.stop
    tasks               \* the requests the controller's event loop is serving

agentVars == <<running, latest_metrics, in_fallback_mode>>
execVars == <<kernel, current_routes>>
loopVars == <<pc, attempt, telemetry, routes, log>>
ctrlVars == <<topology_db, previous_costs>>
proberVars == <<buffers>>
storeVars == <<threads, lock, heap, snapshot>>
lifeVars == <<loops, state_lock, prober_thread, executor_thread, main>>
taskVars == <<tasks>>
vars == <<running, latest_metrics, in_fallback_mode, kernel, current_routes,
          pc, attempt, telemetry, routes, log, topology_db, previous_costs,
          buffers, threads, lock, heap, snapshot,
          loops, state_lock, prober_thread, executor_thread, main, tasks>>

Ev(ev, res, n) == [ev |-> ev, op |-> "", dst |-> "", via |-> "", res |-> res, n |-> n]

(***************************************************************************)
(* The inputs: kernel tables found at start, HTTP exchanges, probe results *)
(***************************************************************************)
LineUniverse ==
    { RouteLine(PeerT, "", PeerC, WgInterface),
      RouteLine(PeerC, "/32", PeerT, WgInterface),
      RouteLine(PeerT, "", "", WgInterface),
      RouteLine(OutsideIp, "", PeerC, WgInterface),
      RouteLine(NotAnIp, "", PeerC, WgInterface),
      RouteLine("10.254.0.0", "/24", "", WgInterface),
      RouteLine(PeerC, "", AgentId, "eth0") }

RECURSIVE SeqsUpTo(_, _)
SeqsUpTo(S, n) ==
    IF n = 0 THEN {<< >>}
    ELSE LET shorter == SeqsUpTo(S, n - 1)
         IN  shorter \cup {Append(q, x) : q \in shorter, x \in S}

\* no two lines for one destination prefix on one interface
InitialKernels ==
    {k \in SeqsUpTo(LineUniverse, MaxKernelLines) :
        \A i, j \in 1..Len(k) :
            i # j => (k[i].dst # k[j].dst \/ k[i].dev # k[j].dev)}

\* route lists a 200 of the routes endpoint may carry
RouteLists ==
    LET relay(d, h) == RouteConfig(d, h, "optimized_path")
        direct(d) == RouteConfig(d, "direct", "default")
    IN  { << >>,
          <<relay(PeerT, PeerC)>>,
          <<direct(PeerT)>>,
          <<direct(PeerC), relay(PeerT, PeerC)>>,
          <<relay(PeerC, PeerT), direct(PeerT)>>,
          <<relay(PeerT, PeerC), relay(OutsideIp, PeerC)>>,
          <<relay(PeerT, OutsideIp)>> }

Failure(status) == Response(status, FALSE, << >>)

TelemetryResponses == {Response("200", TRUE, << >>), Failure("500"), Failure("timeout")}

FetchResponses ==
    {Response("200", TRUE, r) : r \in RouteLists}
        \cup {Failure("404"), Failure("timeout")}

PeerIps == <<PeerC, PeerT>>

\* smoothed metrics a probe cycle reports for the peers
MetricsChoices ==
    { <<Metric(PeerC, Rtt(30), 0), Metric(PeerT, Rtt(200), 10)>> }

\* the threads that call into the topology database
Threads == {1, 2}

IdleThread == [pc |-> "idle", op |-> "", agent_id |-> "", timestamp |-> 0, metrics |-> EmptyDict]

\* the main thread outside start() and stop(), and the last call it made
MainIdle(call) == [pc |-> "idle", call |-> call]

\* the requests the event loop of the controller serves at a time
Tasks == {1, 2}

IdleTask ==
    [pc |-> "idle", agent_id |-> "", data |-> EmptyDict, old_costs |-> EmptyDict,
     routes |-> << >>]

\* Agent.__init__, RouteExecutor.__init__, and the controller's module
\* globals, without the prober
InitAgent ==
    /\ running = FALSE
    /\ latest_metrics = None
    /\ in_fallback_mode = FALSE
    /\ kernel \in InitialKernels
    /\ current_routes = EmptyDict
    /\ pc = "idle"
    /\ attempt = 0
    /\ telemetry = None
    /\ routes = None
    /\ log = << >>
    /\ topology_db = EmptyDict
    /\ previous_costs = EmptyDict
    /\ threads = [t \in Threads |-> IdleThread]
    /\ lock = 0
    /\ heap = <<EmptyDict>>
    /\ snapshot = 0
    /\ loops = << >>
    /\ state_lock = 0
    /\ prober_thread = 0
    /\ executor_thread = 0
    /\ main = MainIdle("")
    /\ tasks = [t \in Tasks |-> IdleTask]

Init ==
    /\ InitAgent
    /\ buffers = NewBuffers(PeerIps, MaxWindow)

(***************************************************************************)
(* Agent (src/agent/main.py)                                               *)
(***************************************************************************)
\* start(): launches the prober and the executor thread
Start ==
    /\ ~running
    /\ running' = TRUE
    /\ pc' = "top"
    /\ UNCHANGED <<proberVars, lifeVars, taskVars, storeVars,
                   latest_metrics, in_fallback_mode, kernel, current_routes,
                   attempt, telemetry, routes, log, topology_db, previous_costs>>

\* one iteration of _prober_loop: run_once, set_metrics, sleep
ProberCycle(metrics) ==
    /\ running
    /\ latest_metrics' = Some(metrics)
    /\ UNCHANGED <<proberVars, lifeVars, taskVars, storeVars,
                   running, in_fallback_mode, kernel, current_routes,
                   pc, attempt, telemetry, routes, log, topology_db, previous_costs>>

\* _enter_fallback_mode that sets the flag and forgets the flush
EnterFallbackMode_NoFlush(fallback) == [flag |-> TRUE, flush |-> FALSE]

\* _enter_fallback_mode without its `if not is_in_fallback_mode()` guard
EnterFallbackMode_Unguarded(fallback) == [flag |-> TRUE, flush |-> TRUE]

\* _enter_fallback_mode before its flush: the flag, and whether it flushes
EnterFallbackMode(fallback) ==
    IF ~fallback THEN [flag |-> TRUE, flush |-> TRUE]
    ELSE [flag |-> fallback, flush |-> FALSE]

\* _exit_fallback_mode that logs the recovery and leaves the flag set
ExitFallbackMode_KeepsFlag(fallback) == fallback

\* _exit_fallback_mode: the flag
ExitFallbackMode(fallback) == IF fallback THEN FALSE ELSE fallback

\* the top of an iteration without its `if metrics is None` check
LoopTop_NoMetricsCheck ==
    /\ running
    /\ pc = "top"
    /\ pc' = "send"
    /\ telemetry' = Some(TelemetryRequest(AgentId, 1, latest_metrics.val))
    /\ log' = <<Ev("tick", "metrics", IF in_fallback_mode THEN 1 ELSE 0)>>
    /\ attempt' = 0
    /\ UNCHANGED <<proberVars, lifeVars, taskVars, storeVars,
                   running, latest_metrics, in_fallback_mode, kernel, current_routes,
                   routes, topology_db, previous_costs>>

\* _executor_loop, top of an iteration: read the metrics, build the request
LoopTop ==
    /\ running
    /\ pc = "top"
    /\ IF ~latest_metrics.some
       THEN /\ pc' = "sleep"
            /\ telemetry' = None
            /\ log' = <<Ev("tick", "no_metrics", IF in_fallback_mode THEN 1 ELSE 0)>>
       ELSE /\ pc' = "send"
            /\ telemetry' = Some(TelemetryRequest(AgentId, 1, latest_metrics.val))
            /\ log' = <<Ev("tick", "metrics", IF in_fallback_mode THEN 1 ELSE 0)>>
    /\ attempt' = 0
    /\ UNCHANGED <<proberVars, lifeVars, taskVars, storeVars,
                   running, latest_metrics, in_fallback_mode, kernel, current_routes,
                   routes, topology_db, previous_costs>>

\* what a failed send or fetch does to the loop once the retries are used up:
\* _enter_fallback_mode, then (after the flush, if any) sleep
GiveUp(done) ==
    LET e == EnterFallbackMode(in_fallback_mode)
    IN  /\ in_fallback_mode' = e.flag
        /\ pc' = IF e.flush THEN "flush" ELSE "sleep"
        /\ log' = IF e.flag # in_fallback_mode
                  THEN Append(done, Ev("set_fallback", "true", 0)) ELSE done
        /\ attempt' = 0

\* one attempt of send_telemetry_with_retry, answered by `resp`, and what the
\* loop does with its result
TelemetryAttempt(resp) ==
    /\ pc = "send"
    /\ LET ok == SendTelemetry(resp)
           r == RetryWithBackoff(attempt, ~ok)
           posted == Append(log, Ev("post", resp.status, attempt))
       IN  CASE r.next = "return" ->
                    /\ in_fallback_mode' = ExitFallbackMode(in_fallback_mode)
                    /\ log' = IF ExitFallbackMode(in_fallback_mode) # in_fallback_mode
                              THEN Append(posted, Ev("set_fallback", "false", 0))
                              ELSE posted
                    /\ pc' = "fetch"
                    /\ attempt' = 0
             [] r.next = "retry" ->
                    /\ log' = Append(posted, Ev("backoff", "", r.delay))
                    /\ attempt' = attempt + 1
                    /\ UNCHANGED <<pc, in_fallback_mode>>
             [] r.next = "raise" -> GiveUp(posted)
    /\ UNCHANGED <<proberVars, lifeVars, taskVars, storeVars,
                   running, latest_metrics, kernel, current_routes, telemetry, routes>>

\* _enter_fallback_mode, second half: flush_all_routes
Flush ==
    /\ pc = "flush"
    /\ \E readEnv \in CmdOutcomes :
       \E envs \in [DictKeySet(ParseRouteLines(kernel, EmptyDict)) -> CmdOutcomes] :
          LET r == FlushAllRoutes(kernel, readEnv, envs, current_routes)
          IN  /\ kernel' = r.kernel
              /\ current_routes' = r.cache
              /\ log' = (Append(log, Ev("flush", readEnv, 0)) \o r.issued)
                            \o <<Ev("flushed", IF r.ok THEN "true" ELSE "false", 0)>>
    /\ pc' = "sleep"
    /\ UNCHANGED <<proberVars, lifeVars, taskVars, storeVars,
                   running, latest_metrics, in_fallback_mode, attempt, telemetry,
                   routes, topology_db, previous_costs>>

\* one attempt of fetch_routes_with_retry, answered by `resp`
FetchAttempt(resp) ==
    /\ pc = "fetch"
    /\ LET got == FetchRoutes(resp)
           r == RetryWithBackoff(attempt, ~got.some)
           fetched == Append(log, Ev("fetch", resp.status, attempt))
       IN  CASE r.next = "return" ->
                    /\ routes' = got
                    /\ log' = fetched
                    /\ pc' = "sync"
                    /\ attempt' = 0
                    /\ UNCHANGED in_fallback_mode
             [] r.next = "retry" ->
                    /\ log' = Append(fetched, Ev("backoff", "", r.delay))
                    /\ attempt' = attempt + 1
                    /\ UNCHANGED <<pc, in_fallback_mode, routes>>
             [] r.next = "raise" -> GiveUp(fetched) /\ UNCHANGED routes
    /\ UNCHANGED <<proberVars, lifeVars, taskVars, storeVars,
                   running, latest_metrics, kernel, current_routes, telemetry>>

\* self.executor.sync_routes(routes).  Executor has no attribute sync_routes:
\* the statements meant to be its body stand in flush_all_routes after the
\* returns (executor.py 347-399) and never run.  The call raises
\* AttributeError, which `except Exception` of the loop logs before sleeping.
SyncRoutesCall ==
    /\ pc = "sync"
    /\ log' = Append(log, Ev("sync_routes", "AttributeError", 0))
    /\ pc' = "sleep"
    /\ UNCHANGED <<proberVars, lifeVars, taskVars, storeVars,
                   running, latest_metrics, in_fallback_mode, kernel, current_routes,
                   attempt, telemetry, routes, topology_db, previous_costs>>

\* time.sleep(sync_interval), then the next iteration starts afresh
Sleep ==
    /\ pc = "sleep"
    /\ pc' = "top"
    /\ attempt' = 0
    /\ telemetry' = None
    /\ routes' = None
    /\ log' = << >>
    /\ UNCHANGED <<proberVars, lifeVars, taskVars, storeVars,
                   running, latest_metrics, in_fallback_mode, kernel, current_routes,
                   topology_db, previous_costs>>

(***************************************************************************)
(* Spec: one agent, the controller seen through its HTTP answers.          *)
(***************************************************************************)
Probe == \E m \in MetricsChoices : ProberCycle(m)

SendTelemetryStep ==
    \E resp \in TelemetryResponses : TelemetryAttempt(resp) /\ UNCHANGED ctrlVars

FetchRoutesStep ==
    \E resp \in FetchResponses : FetchAttempt(resp) /\ UNCHANGED ctrlVars

Next ==
    \/ Start
    \/ Probe
    \/ LoopTop
    \/ SendTelemetryStep
    \/ Flush
    \/ FetchRoutesStep
    \/ SyncRoutesCall
    \/ Sleep

Spec == Init /\ [][Next]_vars

(***************************************************************************)
(* Controller API (src/controller/api.py)                                  *)
(***************************************************************************)
\* receive_telemetry: the new TopologyDatabase._data
ReceiveTelemetry(data, db) ==
    StoreTelemetry(db, data.agent_id, data.timestamp, MetricsDict(data.metrics, EmptyDict))

\* TopologyDatabase.clear
ClearData(data) == EmptyDict

\* remove_stale_agents that also removes the entries of age max_age_seconds
RECURSIVE RemoveStaleAgents_Inclusive(_, _, _, _)
RemoveStaleAgents_Inclusive(items, current_time, max_age_seconds, acc) ==
    IF items = << >> THEN acc
    ELSE LET agent_id == Head(items)[1]
             data == Head(items)[2]
         IN  IF current_time - data.timestamp >= max_age_seconds
             THEN RemoveStaleAgents_Inclusive(Tail(items), current_time, max_age_seconds,
                      [data |-> DictRemove(acc.data, agent_id),
                       removed |-> Append(acc.removed, agent_id)])
             ELSE RemoveStaleAgents_Inclusive(Tail(items), current_time, max_age_seconds, acc)

\* the loop of remove_stale_agents over list(self._data.items()):
\* acc = [data, removed]
RECURSIVE RemoveStaleAgents(_, _, _, _)
RemoveStaleAgents(items, current_time, max_age_seconds, acc) ==
    IF items = << >> THEN acc
    ELSE LET agent_id == Head(items)[1]
             data == Head(items)[2]
         IN  IF current_time - data.timestamp > max_age_seconds
             THEN RemoveStaleAgents(Tail(items), current_time, max_age_seconds,
                      [data |-> DictRemove(acc.data, agent_id),
                       removed |-> Append(acc.removed, agent_id)])
             ELSE RemoveStaleAgents(Tail(items), current_time, max_age_seconds, acc)

(***************************************************************************)
(* The request body of POST /api/v1/telemetry before validation: a field   *)
(* is absent or has a value (src/models.py).                               *)
(***************************************************************************)
Absent(v) == [some |-> FALSE, val |-> v]

\* Metric with loss_rate outside [0, 1] accepted
ValidMetric_AnyLoss(m) ==
    /\ m.target_ip.some
    /\ m.loss_rate.some
    /\ m.rtt_ms.some /\ m.rtt_ms.val.some => m.rtt_ms.val.val >= 0

\* Metric: target_ip and loss_rate required, 0 <= loss_rate <= 1 (here in
\* percent), rtt_ms optional and not negative
ValidMetric(m) ==
    /\ m.target_ip.some
    /\ m.loss_rate.some
    /\ m.loss_rate.val >= 0
    /\ m.loss_rate.val <= 100
    /\ m.rtt_ms.some /\ m.rtt_ms.val.some => m.rtt_ms.val.val >= 0

\* the Metric objects of a valid body; an absent rtt_ms is None
RECURSIVE ParseMetrics(_)
ParseMetrics(ms) ==
    IF ms = << >> THEN << >>
    ELSE <<Metric(Head(ms).target_ip.val,
                  IF Head(ms).rtt_ms.some THEN Head(ms).rtt_ms.val ELSE NoRtt,
                  Head(ms).loss_rate.val)>> \o ParseMetrics(Tail(ms))

\* TelemetryRequest: agent_id, timestamp > 0, metrics with min_length 1;
\* None when pydantic raises a validation error
ParseTelemetryRequest(body) ==
    IF /\ body.agent_id.some
       /\ body.timestamp.some
       /\ body.timestamp.val > 0
       /\ body.metrics.some
       /\ Len(body.metrics.val) >= 1
       /\ \A i \in 1..Len(body.metrics.val) : ValidMetric(body.metrics.val[i])
    THEN Some(TelemetryRequest(body.agent_id.val, body.timestamp.val,
                               ParseMetrics(body.metrics.val)))
    ELSE Absent(TelemetryRequest("", 0, << >>))

\* get_routes without the agent_exists check
GetRoutes_NoExistsCheck(agent_id, db, costs, pick) ==
    LET r == ComputeRoutesFor(agent_id, GetAllData(db), costs, pick)
    IN  [status |-> "200", routes |-> r.routes, previous_costs |-> r.previous_costs]

\* get_routes: [status, routes, previous_costs]
GetRoutes(agent_id, db, costs, pick) ==
    IF ~AgentExists(db, agent_id)
    THEN [status |-> "404", routes |-> << >>, previous_costs |-> costs]
    ELSE LET r == ComputeRoutesFor(agent_id, GetAllData(db), costs, pick)
         IN  [status |-> "200", routes |-> r.routes, previous_costs |-> r.previous_costs]

(***************************************************************************)
(* SysSpec: the agent and the controller together, on a network whose link *)
(* qualities do not change (scenario S2 of the specification, seen from    *)
(* 10.254.0.1: its link to 10.254.0.3 costs 210, the two links over        *)
(* 10.254.0.2 cost 30 each).                                               *)
(***************************************************************************)
ScenarioMetrics(a) ==
    CASE a = AgentId -> <<Metric(PeerC, Rtt(30), 0), Metric(PeerT, Rtt(200), 10)>>
      [] a = PeerC -> <<Metric(AgentId, Rtt(30), 0), Metric(PeerT, Rtt(30), 0)>>
      [] a = PeerT -> <<Metric(AgentId, Rtt(200), 10), Metric(PeerC, Rtt(30), 0)>>

ScenarioKernels ==
    { << >>,
      <<RouteLine(PeerT, "", PeerC, WgInterface)>>,
      <<RouteLine("10.254.0.0", "/24", "", WgInterface),
        RouteLine(PeerT, "", PeerC, WgInterface)>> }

SysInit == Init /\ kernel \in ScenarioKernels

SysProbe == ProberCycle(ScenarioMetrics(AgentId))

\* another agent's POST /api/v1/telemetry
PeerReport ==
    \E a \in {PeerC, PeerT} :
        /\ topology_db' = ReceiveTelemetry(TelemetryRequest(a, 1, ScenarioMetrics(a)),
                                           topology_db)
        /\ UNCHANGED <<proberVars, lifeVars, taskVars, storeVars,
                       running, latest_metrics, in_fallback_mode, kernel, current_routes,
                       pc, attempt, telemetry, routes, log, previous_costs>>

\* the agent's POST reaches the controller and is answered 200
SysPost ==
    /\ telemetry.some
    /\ TelemetryAttempt(Response("200", TRUE, << >>))
    /\ topology_db' = ReceiveTelemetry(telemetry.val, topology_db)
    /\ UNCHANGED previous_costs

\* the agent's POST is lost
SysPostLost == TelemetryAttempt(Failure("timeout")) /\ UNCHANGED ctrlVars

\* the agent's GET reaches the controller and is answered
SysFetch ==
    /\ pc = "fetch"
    /\ \E pick \in PathPicks(BuildGraph(topology_db), AgentId) :
       \E r \in {GetRoutes(AgentId, topology_db, previous_costs, pick)} :
          \E resp \in {Response(r.status, TRUE, r.routes)} :
             /\ FetchAttempt(resp)
             /\ previous_costs' = r.previous_costs
             /\ UNCHANGED topology_db

\* the agent's GET is lost
SysFetchLost == FetchAttempt(Failure("timeout")) /\ UNCHANGED ctrlVars

SysNext ==
    \/ Start
    \/ SysProbe
    \/ PeerReport
    \/ LoopTop
    \/ SysPost
    \/ SysPostLost
    \/ Flush
    \/ SysFetch
    \/ SysFetchLost
    \/ SyncRoutesCall
    \/ Sleep

SysSpec == SysInit /\ [][SysNext]_vars

(***************************************************************************)
(* FairSysSpec: the same system when no request is lost, with the          *)
(* scheduling the threads have: start() runs, the prober thread and the    *)
(* executor thread keep taking their steps, the peers keep reporting.      *)
(***************************************************************************)
ExecutorThreadStep == LoopTop \/ SysPost \/ SysFetch \/ SyncRoutesCall \/ Sleep

ReliableNext ==
    \/ Start
    \/ SysProbe
    \/ PeerReport
    \/ LoopTop
    \/ SysPost
    \/ SysFetch
    \/ SyncRoutesCall
    \/ Sleep

FairSysSpec ==
    /\ SysInit
    /\ [][ReliableNext]_vars
    /\ WF_vars(Start)
    /\ WF_vars(SysProbe)
    /\ WF_vars(PeerReport)
    /\ WF_vars(ExecutorThreadStep)

(***************************************************************************)
(* ExecSpec: the Executor called directly, as its tests call it; `log`     *)
(* holds what the last call did: the call with its arguments and result,   *)
(* then the commands it issued.                                            *)
(***************************************************************************)
CallEvent(name, dst_ip, next_hop, ok) ==
    [ev |-> name, op |-> "", dst |-> dst_ip, via |-> next_hop,
     res |-> IF ok THEN "true" ELSE "false", n |-> 0]

\* the arguments the calls of apply_route are given
ApplyDsts == {PeerT, OutsideIp, NotAnIp}

ApplyHops == {PeerC, OutsideIp, NotAnIp, "direct"}

\* executor.apply_route(dst_ip, next_hop)
ApplyRouteCall ==
    \E dst_ip \in ApplyDsts, next_hop \in ApplyHops, env \in CmdOutcomes :
        LET r == ApplyRoute(dst_ip, next_hop, env, kernel)
        IN  /\ kernel' = r.kernel
            /\ log' = <<CallEvent("apply_route", dst_ip, next_hop, r.ok)>> \o r.issued
            /\ UNCHANGED <<proberVars, lifeVars, taskVars, storeVars,
                           agentVars, current_routes, pc, attempt, telemetry, routes,
                           ctrlVars>>

\* executor.flush_all_routes()
FlushAllRoutesCall ==
    \E readEnv \in CmdOutcomes :
    \E envs \in [DictKeySet(ParseRouteLines(kernel, EmptyDict)) -> CmdOutcomes] :
        LET r == FlushAllRoutes(kernel, readEnv, envs, current_routes)
        IN  /\ kernel' = r.kernel
            /\ current_routes' = r.cache
            /\ log' = <<CallEvent("flush_all_routes", readEnv, "", r.ok)>> \o r.issued
            /\ UNCHANGED <<proberVars, lifeVars, taskVars, storeVars,
                           agentVars, pc, attempt, telemetry, routes, ctrlVars>>

ExecNext == ApplyRouteCall \/ FlushAllRoutesCall

ExecSpec == Init /\ [][ExecNext]_vars

(***************************************************************************)
(* DiffSpec: calculate_route_diff called directly on pairs of tables, as   *)
(* its property test calls it; `log` holds the two arguments and the three *)
(* results of the last call, entry by entry in their order.                *)
(***************************************************************************)
MaxDictLen == 2

\* the tables the calls are given: destination -> next hop, keys unique
DiffDicts ==
    {d \in SeqsUpTo({PeerC, PeerT, OutsideIp} \X {PeerC, PeerT, "direct"}, MaxDictLen) :
        \A i, j \in 1..Len(d) : i # j => d[i][1] # d[j][1]}

EntryEvents(name, d) ==
    [i \in 1..Len(d) |->
        [ev |-> name, op |-> "", dst |-> d[i][1], via |-> d[i][2], res |-> "", n |-> i]]

KeyEvents(name, keys) ==
    [i \in 1..Len(keys) |->
        [ev |-> name, op |-> "", dst |-> keys[i], via |-> "", res |-> "", n |-> i]]

\* executor.calculate_route_diff(desired_routes, current_routes).  The method
\* reads and writes no attribute of the executor, so one call per run shows
\* all it does.
CalculateRouteDiffCall ==
    /\ log = << >>
    /\ \E desired_routes \in DiffDicts, current \in DiffDicts :
        LET r == CalculateRouteDiff(desired_routes, current)
        IN  /\ log' = (((<<Ev("calculate_route_diff", "", 0)>>
                            \o EntryEvents("desired", desired_routes))
                            \o EntryEvents("current", current))
                            \o EntryEvents("add", r.add)
                            \o EntryEvents("modify", r.modify))
                            \o KeyEvents("delete", r.delete)
            /\ UNCHANGED <<proberVars, lifeVars, taskVars, storeVars,
                           agentVars, execVars, pc, attempt, telemetry, routes, ctrlVars>>

DiffInit == Init /\ kernel = << >>

DiffSpec == DiffInit /\ [][CalculateRouteDiffCall]_vars

(***************************************************************************)
(* RetrySpec: _retry_with_backoff of clients constructed with different    *)
(* retry_attempts and retry_backoff, around an operation that returns a    *)
(* value, returns None or raises.  `log` holds the configuration, then     *)
(* every call of the operation, every wait and the way the wrapper ends.   *)
(***************************************************************************)
MaxRetryAttempts == 4

BackoffLists == {<<1, 2, 4>>, <<5>>, <<1, 2>>}

OperationOutcomes == {"value", "none", "raises"}

\* self.retry_attempts and self.retry_backoff of the client under test
ClientRetryAttempts == log[1].n

ClientRetryBackoff ==
    LET idx == {i \in 1..Len(log) : log[i].ev = "retry_backoff"}
    IN  [k \in 1..Cardinality(idx) |-> log[1 + k].n]

\* ControllerClient(url, retry_attempts=N, retry_backoff=B); the wrapper is entered
RetryEnter ==
    /\ pc = "idle"
    /\ log = << >>
    /\ \E retry_attempts \in 1..MaxRetryAttempts, retry_backoff \in BackoffLists :
          log' = <<Ev("retry_attempts", "", retry_attempts)>>
                    \o [i \in 1..Len(retry_backoff) |-> Ev("retry_backoff", "", retry_backoff[i])]
    /\ pc' = "retry"
    /\ attempt' = 0
    /\ UNCHANGED <<proberVars, lifeVars, taskVars, storeVars,
                   agentVars, execVars, telemetry, routes, ctrlVars>>

\* one round of the loop: operation(), then return, wait or raise
RetryOperation ==
    /\ pc = "retry"
    /\ \E outcome \in OperationOutcomes :
          LET r == RetryPass(ClientRetryAttempts, ClientRetryBackoff, attempt,
                             outcome # "value")
              called == Append(log, Ev("operation", outcome, attempt))
          IN  CASE r.next = "return" ->
                       /\ log' = Append(called, Ev("return", "value", 0))
                       /\ pc' = "done"
                       /\ UNCHANGED attempt
                [] r.next = "retry" ->
                       /\ log' = Append(called, Ev("sleep", "", r.delay))
                       /\ attempt' = attempt + 1
                       /\ UNCHANGED pc
                [] r.next = "raise" ->
                       /\ log' = Append(called, Ev("raise", "RetryExhausted", 0))
                       /\ pc' = "done"
                       /\ UNCHANGED attempt
    /\ UNCHANGED <<proberVars, lifeVars, taskVars, storeVars,
                   agentVars, execVars, telemetry, routes, ctrlVars>>

RetryNext == RetryEnter \/ RetryOperation

RetrySpec == DiffInit /\ [][RetryNext]_vars

(***************************************************************************)
(* SolverSpec: the controller alone.  Agents post telemetry, routes are    *)
(* computed for a source, the cost history is reset; link qualities change *)
(* between the posts.  The log holds the last solver call made against the *)
(* stored topology: the call, the cost history it found, the routes it     *)
(* returned.                                                               *)
(***************************************************************************)
\* what 10.254.0.1 and 10.254.0.2 may report about their links; 10.254.0.3
\* is silent (a target only)
SolverMetrics(a) ==
    IF a = AgentId
    THEN { <<Metric(PeerC, Rtt(30), 0), Metric(PeerT, Rtt(100), 0)>>,
           <<Metric(PeerC, Rtt(30), 0), Metric(PeerT, Rtt(90), 0)>>,
           <<Metric(PeerC, Rtt(30), 0), Metric(PeerT, Rtt(80), 0)>>,
           <<Metric(PeerC, Rtt(30), 0), Metric(PeerT, Rtt(200), 10)>>,
           <<Metric(PeerC, Rtt(30), 0), Metric(PeerT, NoRtt, 100)>>,
           <<Metric(PeerC, NoRtt, 100), Metric(PeerT, NoRtt, 100)>> }
    ELSE { <<Metric(AgentId, Rtt(30), 0), Metric(PeerT, Rtt(30), 0)>>,
           <<Metric(AgentId, Rtt(30), 0), Metric(PeerT, Rtt(70), 0)>>,
           <<Metric(AgentId, Rtt(30), 0), Metric(PeerT, NoRtt, 100)>> }

SolverSources == {AgentId, PeerC, PeerT, OutsideIp}

HistoryEvents(costs) ==
    [i \in 1..Len(costs) |->
        [ev |-> "history", op |-> costs[i][1][1], dst |-> costs[i][1][2], via |-> "",
         res |-> "", n |-> costs[i][2]]]

RouteEvents(R) ==
    [i \in 1..Len(R) |->
        [ev |-> "route", op |-> "", dst |-> R[i].dst_cidr[1], via |-> R[i].next_hop,
         res |-> R[i].reason, n |-> i]]

AfterReset == Len(log) = 1 /\ log[1].ev = "reset_history"

\* POST /api/v1/telemetry
SolverIngest ==
    /\ \E a \in {AgentId, PeerC} : \E m \in SolverMetrics(a) :
          topology_db' = ReceiveTelemetry(TelemetryRequest(a, 1, m), topology_db)
    /\ log' = << >>
    /\ UNCHANGED <<proberVars, lifeVars, taskVars, storeVars,
                   agentVars, execVars, pc, attempt, telemetry, routes, previous_costs>>

\* solver.compute_routes_for(source_agent, db.get_all_data())
SolverCompute ==
    \E source_agent \in SolverSources :
    \E pick \in PathPicks(BuildGraph(GetAllData(topology_db)), source_agent) :
        LET r == ComputeRoutesFor(source_agent, GetAllData(topology_db), previous_costs, pick)
        IN  /\ previous_costs' = r.previous_costs
            /\ log' = (((IF AfterReset THEN log ELSE << >>)
                          \o <<CallEvent("compute_routes_for", source_agent, "", TRUE)>>)
                          \o HistoryEvents(previous_costs))
                          \o RouteEvents(r.routes)
            /\ UNCHANGED <<proberVars, lifeVars, taskVars, storeVars,
                           agentVars, execVars, pc, attempt, telemetry, routes, topology_db>>

\* solver.reset_history()
SolverReset ==
    /\ previous_costs' = ResetHistory(previous_costs)
    /\ log' = <<Ev("reset_history", "", 0)>>
    /\ UNCHANGED <<proberVars, lifeVars, taskVars, storeVars,
                   agentVars, execVars, pc, attempt, telemetry, routes, topology_db>>

SolverNext == SolverIngest \/ SolverCompute \/ SolverReset

SolverSpec == DiffInit /\ [][SolverNext]_vars

(***************************************************************************)
(* StoreSpec: threads call TopologyDatabase.store_telemetry concurrently.  *)
(* A call takes the lock, assigns the entry, and gives the lock back; the  *)
(* log lists the calls in the order in which they returned.                *)
(***************************************************************************)
MaxStores == 3

\* the metrics dictionaries the calls are given
StoreMetrics ==
    { <<<<PeerC, [rtt |-> Rtt(30), loss |-> 0]>>, <<PeerT, [rtt |-> Rtt(200), loss |-> 10]>>>>,
      <<<<PeerC, [rtt |-> NoRtt, loss |-> 100]>>>> }

StoreTimestamps == {1, 2}

StoreEvent(call) ==
    [ev |-> "store_telemetry", agent_id |-> call.agent_id, timestamp |-> call.timestamp,
     metrics |-> call.metrics]

StoresBegun == Len(log) + Cardinality({t \in Threads : threads[t].pc # "idle"})

\* a thread enters store_telemetry(agent_id, timestamp, metrics)
StoreCall(t) ==
    /\ threads[t].pc = "idle"
    /\ StoresBegun < MaxStores
    /\ \E a \in {AgentId, PeerC}, ts \in StoreTimestamps, m \in StoreMetrics :
          threads' = [threads EXCEPT ![t] =
                         [pc |-> "acquire", op |-> "store_telemetry", agent_id |-> a,
                          timestamp |-> ts, metrics |-> m]]
    /\ UNCHANGED <<agentVars, execVars, loopVars, ctrlVars, proberVars, lifeVars, taskVars, lock, heap, snapshot>>

\* with self._lock: (entry)
StoreAcquire(t) ==
    /\ threads[t].pc = "acquire"
    /\ lock = 0
    /\ lock' = t
    /\ threads' = [threads EXCEPT ![t].pc = "assign"]
    /\ UNCHANGED <<agentVars, execVars, loopVars, ctrlVars, proberVars, lifeVars, taskVars, heap, snapshot>>

\* self._data[agent_id] = {"timestamp": timestamp, "metrics": metrics}
StoreAssign(t) ==
    /\ threads[t].pc = "assign"
    /\ topology_db' = StoreTelemetry(topology_db, threads[t].agent_id, threads[t].timestamp,
                                      threads[t].metrics)
    /\ threads' = [threads EXCEPT ![t].pc = "release"]
    /\ UNCHANGED <<agentVars, execVars, loopVars, previous_costs, proberVars, lifeVars, taskVars, lock, heap,
                   snapshot>>

\* with self._lock: (exit), and the return
StoreRelease(t) ==
    /\ threads[t].pc = "release"
    /\ lock' = 0
    /\ log' = Append(log, StoreEvent(threads[t]))
    /\ threads' = [threads EXCEPT ![t] = IdleThread]
    /\ UNCHANGED <<agentVars, execVars, pc, attempt, telemetry, routes, ctrlVars, proberVars, lifeVars, taskVars,
                   heap, snapshot>>

StoreNext == \E t \in Threads : StoreCall(t) \/ StoreAcquire(t) \/ StoreAssign(t) \/ StoreRelease(t)

StoreSpec == DiffInit /\ [][StoreNext]_vars

(***************************************************************************)
(* SnapshotSpec: the topology database as Python objects.  Every dict is   *)
(* an object of the heap with an identity; a dict inside a dict is held by *)
(* reference, so two dicts may share a third and a change made through one *)
(* is then seen through the other.  Object 1 is TopologyDatabase._data.    *)
(* Telemetry is stored, a caller takes a snapshot with get_all_data and    *)
(* changes the dicts it was given.                                         *)
(***************************************************************************)
MaxHeap == 10

Ref(id) == [ref |-> id]

\* the identity of TopologyDatabase._data
DataId == 1

\* the dict comprehension of receive_telemetry, as objects: [heap, refs]
RECURSIVE NewMetricDicts(_, _, _)
NewMetricDicts(h, metrics, refs) ==
    IF metrics = << >> THEN [heap |-> h, refs |-> refs]
    ELSE LET m == Head(metrics)
             h1 == Append(h, <<<<"rtt", m.rtt_ms>>, <<"loss", m.loss_rate>>>>)
         IN  NewMetricDicts(h1, Tail(metrics), DictSet(refs, m.target_ip, Ref(Len(h1))))

\* receive_telemetry and store_telemetry: the new heap
HeapStoreTelemetry(h, data) ==
    LET m == NewMetricDicts(h, data.metrics, EmptyDict)
        h1 == Append(m.heap, m.refs)
        h2 == Append(h1, <<<<"timestamp", data.timestamp>>, <<"metrics", Ref(Len(h1))>>>>)
    IN  [h2 EXCEPT ![DataId] = DictSet(@, data.agent_id, Ref(Len(h2)))]

\* the same comprehension without dict(): the metric dicts are shared
RECURSIVE CopyMetrics_Shared(_, _, _)
CopyMetrics_Shared(h, items, refs) ==
    IF items = << >> THEN [heap |-> h, refs |-> refs]
    ELSE CopyMetrics_Shared(h, Tail(items), DictSet(refs, Head(items)[1], Head(items)[2]))

\* {target_ip: dict(metric_data) for ... in data["metrics"].items()}
RECURSIVE CopyMetrics(_, _, _)
CopyMetrics(h, items, refs) ==
    IF items = << >> THEN [heap |-> h, refs |-> refs]
    ELSE LET target_ip == Head(items)[1]
             metric_data == Head(items)[2]
             h1 == Append(h, h[metric_data.ref])
         IN  CopyMetrics(h1, Tail(items), DictSet(refs, target_ip, Ref(Len(h1))))

\* {agent_id: {"timestamp": ..., "metrics": {...}} for ... in self._data.items()}
RECURSIVE CopyEntries(_, _, _)
CopyEntries(h, items, refs) ==
    IF items = << >> THEN [heap |-> h, refs |-> refs]
    ELSE LET agent_id == Head(items)[1]
             data == h[Head(items)[2].ref]
             m == CopyMetrics(h, h[DictGet(data, "metrics").ref], EmptyDict)
             h1 == Append(m.heap, m.refs)
             h2 == Append(h1, <<<<"timestamp", DictGet(data, "timestamp")>>,
                                <<"metrics", Ref(Len(h1))>>>>)
         IN  CopyEntries(h2, Tail(items), DictSet(refs, agent_id, Ref(Len(h2))))

\* get_all_data: [heap, result], the result being the identity of the new dict
HeapGetAllData(h) ==
    LET c == CopyEntries(h, h[DataId], EmptyDict)
    IN  [heap |-> Append(c.heap, c.refs), result |-> Len(c.heap) + 1]

\* the reports the agents post
SnapshotReports ==
    { TelemetryRequest(AgentId, 1, <<Metric(PeerC, Rtt(30), 0), Metric(PeerT, Rtt(200), 10)>>),
      TelemetryRequest(AgentId, 2, <<Metric(PeerC, NoRtt, 100)>>),
      TelemetryRequest(PeerC, 1, <<Metric(AgentId, Rtt(30), 0)>>) }

\* POST /api/v1/telemetry
SnapshotStore ==
    /\ \E data \in SnapshotReports :
          /\ Len(heap) + Len(data.metrics) + 2 <= MaxHeap
          /\ heap' = HeapStoreTelemetry(heap, data)
          /\ log' = <<Ev("store_telemetry", data.agent_id, data.timestamp)>>
    /\ UNCHANGED <<agentVars, execVars, pc, attempt, telemetry, routes, ctrlVars, proberVars, lifeVars, taskVars,
                   threads, lock, snapshot>>

\* snapshot = topology_db.get_all_data()
SnapshotGetAllData ==
    /\ LET r == HeapGetAllData(heap)
       IN  /\ Len(r.heap) <= MaxHeap
           /\ heap' = r.heap
           /\ snapshot' = r.result
    /\ log' = <<Ev("get_all_data", "", 0)>>
    /\ UNCHANGED <<agentVars, execVars, pc, attempt, telemetry, routes, ctrlVars, proberVars, lifeVars, taskVars,
                   threads, lock>>

\* the caller changes what it was given: it adds an agent, removes one,
\* sets a timestamp, sets a metric's rtt, or removes a metric
SnapshotMutate ==
    /\ snapshot # 0
    /\ \/ /\ ~DictHas(heap[snapshot], OutsideIp)
          /\ Len(heap) + 2 <= MaxHeap
          /\ LET h1 == Append(heap, EmptyDict)
                 h2 == Append(h1, <<<<"timestamp", 0>>, <<"metrics", Ref(Len(h1))>>>>)
             IN  heap' = [h2 EXCEPT ![snapshot] = DictSet(@, OutsideIp, Ref(Len(h2)))]
          /\ log' = <<Ev("mutate", "add agent", 0)>>
       \/ \E a \in DictKeySet(heap[snapshot]) :
             \/ /\ heap' = [heap EXCEPT ![snapshot] = DictRemove(@, a)]
                /\ log' = <<Ev("mutate", "remove agent", 0)>>
             \/ /\ heap' = [heap EXCEPT ![DictGet(heap[snapshot], a).ref] =
                                 DictSet(@, "timestamp", 9)]
                /\ log' = <<Ev("mutate", "timestamp", 0)>>
             \/ LET metrics == DictGet(heap[DictGet(heap[snapshot], a).ref], "metrics").ref
                IN  \E t \in DictKeySet(heap[metrics]) :
                       \/ /\ heap' = [heap EXCEPT ![DictGet(heap[metrics], t).ref] =
                                           DictSet(@, "rtt", Rtt(1))]
                          /\ log' = <<Ev("mutate", "metric", 0)>>
                       \/ /\ heap' = [heap EXCEPT ![metrics] = DictRemove(@, t)]
                          /\ log' = <<Ev("mutate", "remove metric", 0)>>
    /\ UNCHANGED <<agentVars, execVars, pc, attempt, telemetry, routes, ctrlVars, proberVars, lifeVars, taskVars,
                   threads, lock, snapshot>>

SnapshotNext == SnapshotStore \/ SnapshotGetAllData \/ SnapshotMutate

SnapshotSpec == DiffInit /\ [][SnapshotNext]_vars

(***************************************************************************)
(* ApiSpec: the controller behind its HTTP API.  Bodies, valid or not, are *)
(* posted to /api/v1/telemetry, routes are requested, the database is      *)
(* cleared and swept for stale entries.  The log holds the last call: its  *)
(* argument, its answer and what it returned.                              *)
(***************************************************************************)
ApiEvent(ev, arg, res, out) == [ev |-> ev, arg |-> arg, res |-> res, out |-> out]

Body(agent_id, timestamp, metrics) ==
    [agent_id |-> agent_id, timestamp |-> timestamp, metrics |-> metrics]

BodyMetric(target_ip, rtt_ms, loss_rate) ==
    [target_ip |-> Some(target_ip), rtt_ms |-> Some(rtt_ms), loss_rate |-> Some(loss_rate)]

ValidBodies ==
    { Body(Some(AgentId), Some(10), Some(<<BodyMetric(PeerC, Rtt(30), 0)>>)),
      Body(Some(AgentId), Some(20),
           Some(<<BodyMetric(PeerC, Rtt(30), 0), BodyMetric(PeerT, Rtt(200), 10)>>)),
      Body(Some(PeerC), Some(10),
           Some(<<BodyMetric(AgentId, Rtt(30), 0), BodyMetric(PeerT, Rtt(30), 0)>>)),
      Body(Some(PeerC), Some(20),
           Some(<<BodyMetric(AgentId, Rtt(0), 100), BodyMetric(PeerT, NoRtt, 100)>>)),
      Body(Some(AgentId), Some(20),
           Some(<<[target_ip |-> Some(PeerT), rtt_ms |-> Absent(NoRtt),
                   loss_rate |-> Some(0)]>>)) }

InvalidBodies ==
    { Body(Absent(""), Some(10), Some(<<BodyMetric(PeerC, Rtt(30), 0)>>)),
      Body(Some(AgentId), Absent(0), Some(<<BodyMetric(PeerC, Rtt(30), 0)>>)),
      Body(Some(AgentId), Some(10), Absent(<< >>)),
      Body(Some(AgentId), Some(10), Some(<< >>)),
      Body(Some(AgentId), Some(0), Some(<<BodyMetric(PeerC, Rtt(30), 0)>>)),
      Body(Some(AgentId), Some(10), Some(<<BodyMetric(PeerC, Rtt(30), 150)>>)),
      Body(Some(AgentId), Some(10), Some(<<BodyMetric(PeerC, Rtt(30), 0 - 50)>>)),
      Body(Some(AgentId), Some(10), Some(<<BodyMetric(PeerC, Rtt(0 - 10), 0)>>)),
      Body(Some(AgentId), Some(10),
           Some(<<BodyMetric(PeerC, Rtt(30), 0),
                  [target_ip |-> Some(PeerT), rtt_ms |-> Some(Rtt(30)),
                   loss_rate |-> Absent(0)]>>)),
      Body(Some(AgentId), Some(10),
           Some(<<[target_ip |-> Absent(""), rtt_ms |-> Some(Rtt(30)),
                   loss_rate |-> Some(0)]>>)) }

\* POST /api/v1/telemetry: FastAPI validates the body against
\* TelemetryRequest and answers 422 without calling receive_telemetry
ApiPostTelemetry ==
    /\ \E body \in ValidBodies \cup InvalidBodies :
          LET data == ParseTelemetryRequest(body)
          IN  IF data.some
              THEN /\ topology_db' = ReceiveTelemetry(data.val, topology_db)
                   /\ log' = <<ApiEvent("POST /api/v1/telemetry", body, "200", << >>)>>
              ELSE /\ log' = <<ApiEvent("POST /api/v1/telemetry", body, "422", << >>)>>
                   /\ UNCHANGED topology_db
    /\ UNCHANGED <<agentVars, execVars, pc, attempt, telemetry, routes, previous_costs,
                   proberVars, lifeVars, taskVars, storeVars>>

\* GET /api/v1/routes?agent_id=...
ApiGetRoutes ==
    /\ \E agent_id \in {AgentId, PeerC, PeerT} :
       \E pick \in PathPicks(BuildGraph(GetAllData(topology_db)), agent_id) :
          LET r == GetRoutes(agent_id, topology_db, previous_costs, pick)
          IN  /\ previous_costs' = r.previous_costs
              /\ log' = <<ApiEvent("GET /api/v1/routes", agent_id, r.status, r.routes)>>
    /\ UNCHANGED <<agentVars, execVars, pc, attempt, telemetry, routes, topology_db,
                   proberVars, lifeVars, taskVars, storeVars>>

\* topology_db.clear()
ApiClear ==
    /\ topology_db' = ClearData(topology_db)
    /\ log' = <<ApiEvent("clear", "", "", << >>)>>
    /\ UNCHANGED <<agentVars, execVars, pc, attempt, telemetry, routes, previous_costs,
                   proberVars, lifeVars, taskVars, storeVars>>

\* int(time.time()) and max_age_seconds of the sweeps
SweepTimes == {20, 25, 30}

SweepAges == {5, 10}

\* topology_db.remove_stale_agents(max_age_seconds)
ApiRemoveStaleAgents ==
    /\ \E current_time \in SweepTimes, max_age_seconds \in SweepAges :
          LET r == RemoveStaleAgents(topology_db, current_time, max_age_seconds,
                                     [data |-> topology_db, removed |-> << >>])
          IN  /\ topology_db' = r.data
              /\ log' = <<ApiEvent("remove_stale_agents",
                                    [current_time |-> current_time,
                                     max_age_seconds |-> max_age_seconds],
                                    "", r.removed)>>
    /\ UNCHANGED <<agentVars, execVars, pc, attempt, telemetry, routes, previous_costs,
                   proberVars, lifeVars, taskVars, storeVars>>

ApiNext == ApiPostTelemetry \/ ApiGetRoutes \/ ApiClear \/ ApiRemoveStaleAgents

ApiSpec == DiffInit /\ [][ApiNext]_vars

(***************************************************************************)
(* ProberSpec: the prober thread.  Every cycle probes each peer once       *)
(* (an echo reply after some delay, no reply, or an exception of the echo  *)
(* call), feeds the sliding windows and publishes the smoothed metrics.    *)
(* The log holds, cycle after cycle, what the echo calls did, the results   *)
(* of probe_all and the metrics of get_smoothed_metrics.                   *)
(***************************************************************************)
MaxCycles == 4

ProbeEvent(echoes, results, metrics) ==
    [ev |-> "run_once", echoes |-> echoes, results |-> results, metrics |-> metrics]

\* what the echo calls of one cycle do, peer by peer
EchoChoices ==
    {echoes \in [SeqToSet(PeerIps) ->
                    {Echo(6 * Unit), Echo(7 * Unit), EchoTimeout, EchoRaises}] :
        echoes[PeerT] \in {Echo(6 * Unit), EchoTimeout}}

\* one turn of the loop of _prober_loop: run_once and state.set_metrics
RunOnce ==
    /\ Len(log) < MaxCycles
    /\ \E echoes \in EchoChoices :
          LET r == ProbeAll(PeerIps, echoes, [results |-> << >>, buffers |-> buffers])
              metrics == GetSmoothedMetrics(PeerIps, r.buffers)
          IN  /\ buffers' = r.buffers
              /\ latest_metrics' = Some(metrics)
              /\ log' = Append(log, ProbeEvent(echoes, r.results, metrics))
    /\ UNCHANGED <<running, in_fallback_mode, execVars, pc, attempt, telemetry, routes,
                   ctrlVars, storeVars, lifeVars, taskVars>>

\* Prober(peer_ips, window_size = ...)
ProberInit ==
    /\ InitAgent
    /\ kernel = << >>
    /\ buffers \in {NewBuffers(PeerIps, window_size) : window_size \in 1..MaxWindow}

ProberSpec == ProberInit /\ [][RunOnce]_vars

(***************************************************************************)
(* LifeSpec: the threads of the agent.  The main thread calls start() and  *)
(* stop(); every start() that finds the agent stopped creates a prober and *)
(* an executor thread.  A loop is followed from one blocking call or lock  *)
(* operation to the next: `pc` names the call the thread is in or about to *)
(* make.  A method of AgentState takes two steps: the lock is acquired,    *)
(* then the body runs and the lock is released.  The controller is seen    *)
(* through its HTTP answers; the kernel table starts empty.                *)
(***************************************************************************)
MaxStarts == 2

\* threading.Thread(target=...).start(): the loop is about to test `running`
NewLoop(target) == [target |-> target, pc |-> "while", attempt |-> 0]

Alive(i) == loops[i].pc # "stopped"

\* the positions at which a loop is in a method of AgentState
LockPcs ==
    {"set_metrics", "get_metrics", "is_fallback", "exit_check", "exit_set",
     "enter_check", "enter_set"}

\* the positions at which a loop is in a call that blocks: an echo round, an
\* HTTP request, a backoff wait, the commands of a flush, a sleep
BlockingPcs ==
    {"run_once", "send", "send_backoff", "fetch", "fetch_backoff", "flush", "sleep"}

Goto(i, to) == loops' = [loops EXCEPT ![i].pc = to]

\* a method of AgentState that returns with the lock still held
Release_Kept(i) == state_lock = i /\ UNCHANGED state_lock

\* the body of a method of AgentState has run: the lock is released
Release(i) == state_lock = i /\ state_lock' = 0

\* Agent.start()
StartCall ==
    /\ main.pc = "idle"
    /\ IF running
       THEN UNCHANGED <<running, loops, prober_thread, executor_thread>>
       ELSE /\ Len(loops) < 2 * MaxStarts
            /\ running' = TRUE
            /\ loops' = loops \o <<NewLoop("prober"), NewLoop("executor")>>
            /\ prober_thread' = Len(loops) + 1
            /\ executor_thread' = Len(loops) + 2
    /\ main' = MainIdle("start")
    /\ UNCHANGED <<latest_metrics, in_fallback_mode, execVars, loopVars, ctrlVars,
                   proberVars, storeVars, taskVars, state_lock>>

\* Agent.stop() up to its first join
StopCall ==
    /\ main.pc = "idle"
    /\ IF ~running
       THEN /\ main' = MainIdle("stop")
            /\ UNCHANGED running
       ELSE /\ running' = FALSE
            /\ main' = [pc |-> "join_prober", call |-> "stop"]
    /\ UNCHANGED <<latest_metrics, in_fallback_mode, execVars, loopVars, ctrlVars,
                   proberVars, storeVars, taskVars, loops, state_lock, prober_thread,
                   executor_thread>>

\* self.prober_thread.join(timeout=10), self.executor_thread.join(timeout=10):
\* the join returns when the thread has ended, or after 10 seconds
Join ==
    /\ main.pc \in {"join_prober", "join_executor"}
    /\ main' = [main EXCEPT
                       !.pc = IF main.pc = "join_prober" THEN "join_executor" ELSE "idle"]
    /\ UNCHANGED <<agentVars, execVars, loopVars, ctrlVars, proberVars, storeVars,
                   taskVars, loops, state_lock, prober_thread, executor_thread>>

\* `while self.running:` of _prober_loop and of _executor_loop
LoopWhile(i) ==
    /\ loops[i].pc = "while"
    /\ Goto(i, IF ~running THEN "stopped"
               ELSE IF loops[i].target = "prober" THEN "run_once" ELSE "get_metrics")
    /\ UNCHANGED <<agentVars, execVars, loopVars, ctrlVars, proberVars, storeVars,
                   taskVars, state_lock, prober_thread, executor_thread, main>>

\* `with self.lock:` of the AgentState method the loop is in
LockAcquire(i) ==
    /\ loops[i].pc \in LockPcs
    /\ state_lock = 0
    /\ state_lock' = i
    /\ UNCHANGED <<agentVars, execVars, loopVars, ctrlVars, proberVars, storeVars,
                   taskVars, loops, prober_thread, executor_thread, main>>

\* self.prober.run_once(): every peer answers the echo, or the call raises
\* and `except Exception` logs the error
ProberRunOnce(i) ==
    /\ loops[i].pc = "run_once"
    /\ \/ LET r == ProbeAll(PeerIps, [ip \in SeqToSet(PeerIps) |-> Echo(6 * Unit)],
                            [results |-> << >>, buffers |-> buffers])
          IN  /\ buffers' = r.buffers
              /\ Goto(i, "set_metrics")
       \/ /\ Goto(i, "except")
          /\ UNCHANGED buffers
    /\ UNCHANGED <<agentVars, execVars, loopVars, ctrlVars, storeVars, taskVars,
                   state_lock, prober_thread, executor_thread, main>>

\* self.state.set_metrics(metrics), the lock held
ProberSetMetrics(i) ==
    /\ loops[i].pc = "set_metrics"
    /\ Release(i)
    /\ latest_metrics' = Some(GetSmoothedMetrics(PeerIps, buffers))
    /\ Goto(i, "sleep")
    /\ UNCHANGED <<running, in_fallback_mode, execVars, loopVars, ctrlVars, proberVars,
                   storeVars, taskVars, prober_thread, executor_thread, main>>

\* time.sleep(probe_interval), time.sleep(sync_interval)
LoopSleep(i) ==
    /\ loops[i].pc = "sleep"
    /\ loops' = [loops EXCEPT ![i].pc = "while", ![i].attempt = 0]
    /\ UNCHANGED <<agentVars, execVars, loopVars, ctrlVars, proberVars, storeVars,
                   taskVars, state_lock, prober_thread, executor_thread, main>>

\* metrics = self.state.get_metrics(), the lock held
ExecGetMetrics(i) ==
    /\ loops[i].pc = "get_metrics"
    /\ Release(i)
    /\ Goto(i, IF ~latest_metrics.some THEN "sleep" ELSE "send")
    /\ UNCHANGED <<agentVars, execVars, loopVars, ctrlVars, proberVars, storeVars,
                   taskVars, prober_thread, executor_thread, main>>

\* one attempt of send_telemetry_with_retry or of fetch_routes_with_retry
ExecRequest(i) ==
    /\ loops[i].pc \in {"send", "fetch"}
    /\ \E resp \in TelemetryResponses :
          LET ok == IF loops[i].pc = "send" THEN SendTelemetry(resp)
                    ELSE FetchRoutes(resp).some
              r == RetryWithBackoff(loops[i].attempt, ~ok)
          IN  loops' = [loops EXCEPT
                  ![i].pc = CASE r.next = "return" ->
                                     IF loops[i].pc = "send" THEN "is_fallback" ELSE "sync"
                              [] r.next = "retry" ->
                                     IF loops[i].pc = "send" THEN "send_backoff"
                                     ELSE "fetch_backoff"
                              [] r.next = "raise" -> "enter_check",
                  ![i].attempt = IF r.next = "retry" THEN @ + 1 ELSE 0]
    /\ UNCHANGED <<agentVars, execVars, loopVars, ctrlVars, proberVars, storeVars,
                   taskVars, state_lock, prober_thread, executor_thread, main>>

\* time.sleep(delay) of _retry_with_backoff
ExecBackoff(i) ==
    /\ loops[i].pc \in {"send_backoff", "fetch_backoff"}
    /\ Goto(i, IF loops[i].pc = "send_backoff" THEN "send" ELSE "fetch")
    /\ UNCHANGED <<agentVars, execVars, loopVars, ctrlVars, proberVars, storeVars,
                   taskVars, state_lock, prober_thread, executor_thread, main>>

\* self.state.is_in_fallback_mode(), the lock held: after a successful send,
\* in _exit_fallback_mode, in _enter_fallback_mode
ExecIsInFallbackMode(i) ==
    /\ loops[i].pc \in {"is_fallback", "exit_check", "enter_check"}
    /\ Release(i)
    /\ Goto(i, CASE loops[i].pc = "is_fallback" ->
                       IF in_fallback_mode THEN "exit_check" ELSE "fetch"
                 [] loops[i].pc = "exit_check" ->
                       IF in_fallback_mode THEN "exit_set" ELSE "fetch"
                 [] loops[i].pc = "enter_check" ->
                       IF ~in_fallback_mode THEN "enter_set" ELSE "sleep")
    /\ UNCHANGED <<agentVars, execVars, loopVars, ctrlVars, proberVars, storeVars,
                   taskVars, prober_thread, executor_thread, main>>

\* self.state.set_fallback_mode(enabled), the lock held
ExecSetFallbackMode(i) ==
    /\ loops[i].pc \in {"exit_set", "enter_set"}
    /\ Release(i)
    /\ in_fallback_mode' = (loops[i].pc = "enter_set")
    /\ Goto(i, IF loops[i].pc = "enter_set" THEN "flush" ELSE "fetch")
    /\ UNCHANGED <<running, latest_metrics, execVars, loopVars, ctrlVars, proberVars,
                   storeVars, taskVars, prober_thread, executor_thread, main>>

\* self.executor.flush_all_routes() of _enter_fallback_mode
ExecFlush(i) ==
    /\ loops[i].pc = "flush"
    /\ \E readEnv \in CmdOutcomes :
       \E envs \in [DictKeySet(ParseRouteLines(kernel, EmptyDict)) -> CmdOutcomes] :
          LET r == FlushAllRoutes(kernel, readEnv, envs, current_routes)
          IN  /\ kernel' = r.kernel
              /\ current_routes' = r.cache
    /\ Goto(i, "sleep")
    /\ UNCHANGED <<agentVars, loopVars, ctrlVars, proberVars, storeVars, taskVars,
                   state_lock, prober_thread, executor_thread, main>>

\* self.executor.sync_routes(routes): AttributeError, logged by
\* `except Exception` of the loop
ExecSyncRoutes(i) ==
    /\ loops[i].pc = "sync"
    /\ Goto(i, "except")
    /\ UNCHANGED <<agentVars, execVars, loopVars, ctrlVars, proberVars, storeVars,
                   taskVars, state_lock, prober_thread, executor_thread, main>>

\* a loop whose `try` is around the `while`: the exception ends the loop
LoopExcept_Outside(i) ==
    /\ loops[i].pc = "except"
    /\ Goto(i, "stopped")
    /\ UNCHANGED <<agentVars, execVars, loopVars, ctrlVars, proberVars, storeVars,
                   taskVars, state_lock, prober_thread, executor_thread, main>>

\* `except Exception as e:` of the loop: the error is logged
LoopExcept(i) ==
    /\ loops[i].pc = "except"
    /\ Goto(i, "sleep")
    /\ UNCHANGED <<agentVars, execVars, loopVars, ctrlVars, proberVars, storeVars,
                   taskVars, state_lock, prober_thread, executor_thread, main>>

LifeNext ==
    \/ StartCall
    \/ StopCall
    \/ Join
    \/ \E i \in 1..Len(loops) : LoopWhile(i)
    \/ \E i \in 1..Len(loops) : LockAcquire(i)
    \/ \E i \in 1..Len(loops) : ProberRunOnce(i)
    \/ \E i \in 1..Len(loops) : ProberSetMetrics(i)
    \/ \E i \in 1..Len(loops) : LoopSleep(i)
    \/ \E i \in 1..Len(loops) : ExecGetMetrics(i)
    \/ \E i \in 1..Len(loops) : ExecRequest(i)
    \/ \E i \in 1..Len(loops) : ExecBackoff(i)
    \/ \E i \in 1..Len(loops) : ExecIsInFallbackMode(i)
    \/ \E i \in 1..Len(loops) : ExecSetFallbackMode(i)
    \/ \E i \in 1..Len(loops) : ExecFlush(i)
    \/ \E i \in 1..Len(loops) : ExecSyncRoutes(i)
    \/ \E i \in 1..Len(loops) : LoopExcept(i)

LifeSpec == DiffInit /\ [][LifeNext]_vars

(***************************************************************************)
(* TaskSpec: the controller serving route requests that arrive together.   *)
(* uvicorn.run(app) serves every request on one event loop: a handler      *)
(* declared `async def` runs from one `await` to the next without another  *)
(* handler running in between.  A request arrives (its task is pending),   *)
(* the event loop runs its handler, the answer is sent.  Telemetry is      *)
(* stored between the steps of the requests.                               *)
(***************************************************************************)
\* a handler that awaits between the reading of the history and its update
GetRoutesAwaits_BeforeUpdate == {"update"}

\* the positions of get_routes at which it awaits: the handler calls
\* agent_exists, get_all_data and compute_routes_for, none of them a coroutine
GetRoutesAwaits == {}

\* previous_costs[cost_key] = new_cost for every key the pass has set
RECURSIVE WriteBack(_, _, _)
WriteBack(current, result, keys) ==
    IF keys = << >> THEN current
    ELSE WriteBack(DictSet(current, Head(keys), DictGet(result, Head(keys))), result,
                   Tail(keys))

\* the keys a pass that read `seen` has assigned in `result`
Assigned(seen, result) ==
    SelectSeq(DictKeys(result),
              LAMBDA k : ~DictHas(seen, k) \/ DictGet(seen, k) # DictGet(result, k))

\* The rest of get_routes from the comparison with the history on, for a
\* request that read the topology `data` and the history `seen`
TaskUpdate(t, agent_id, data, seen) ==
    \E pick \in PathPicks(BuildGraph(data), agent_id) :
       LET r == ComputeRoutesFor(agent_id, data, seen, pick)
       IN  /\ previous_costs' =
                 WriteBack(previous_costs, r.previous_costs, Assigned(seen, r.previous_costs))
           /\ tasks' = [tasks EXCEPT ![t] =
                           [pc |-> "done", agent_id |-> agent_id, data |-> data,
                            old_costs |-> seen, routes |-> r.routes]]

\* what the agents report: the direct link to PeerT good or lossy, the relay
\* through PeerC better than the lossy link
TaskMetrics(a) ==
    IF a = AgentId
    THEN { <<Metric(PeerC, Rtt(30), 0), Metric(PeerT, Rtt(100), 0)>>,
           <<Metric(PeerC, Rtt(30), 0), Metric(PeerT, Rtt(200), 10)>> }
    ELSE { <<Metric(AgentId, Rtt(30), 0), Metric(PeerT, Rtt(30), 0)>> }

\* POST /api/v1/telemetry, served between the steps of the route requests
TaskIngest ==
    /\ \E a \in {AgentId, PeerC} : \E m \in TaskMetrics(a) :
          topology_db' = ReceiveTelemetry(TelemetryRequest(a, 1, m), topology_db)
    /\ UNCHANGED <<agentVars, execVars, loopVars, previous_costs, proberVars, storeVars,
                   lifeVars, taskVars>>

\* GET /api/v1/routes?agent_id=... arrives
TaskArrive(t) ==
    /\ tasks[t].pc = "idle"
    /\ \E agent_id \in {AgentId, PeerC} :
          tasks' = [tasks EXCEPT ![t] = [IdleTask EXCEPT !.pc = "pending",
                                                        !.agent_id = agent_id]]
    /\ UNCHANGED <<agentVars, execVars, loopVars, ctrlVars, proberVars, storeVars,
                   lifeVars>>

\* the event loop runs get_routes from its start, or from the await it is
\* at, to its next await or to its end
TaskRun(t) ==
    /\ tasks[t].pc \in {"pending", "awaiting"}
    /\ IF tasks[t].pc = "awaiting"
       THEN TaskUpdate(t, tasks[t].agent_id, tasks[t].data, tasks[t].old_costs)
       ELSE IF ~AgentExists(topology_db, tasks[t].agent_id)
       THEN /\ tasks' = [tasks EXCEPT ![t].pc = "done"]
            /\ UNCHANGED previous_costs
       ELSE IF "update" \in GetRoutesAwaits
       THEN /\ tasks' = [tasks EXCEPT ![t].pc = "awaiting",
                                      ![t].data = GetAllData(topology_db),
                                      ![t].old_costs = previous_costs]
            /\ UNCHANGED previous_costs
       ELSE TaskUpdate(t, tasks[t].agent_id, GetAllData(topology_db), previous_costs)
    /\ UNCHANGED <<agentVars, execVars, loopVars, topology_db, proberVars, storeVars,
                   lifeVars>>

\* the answer is sent
TaskDeliver(t) ==
    /\ tasks[t].pc = "done"
    /\ tasks' = [tasks EXCEPT ![t] = IdleTask]
    /\ UNCHANGED <<agentVars, execVars, loopVars, ctrlVars, proberVars, storeVars,
                   lifeVars>>

TaskNext ==
    \/ TaskIngest
    \/ \E t \in Tasks : TaskArrive(t)
    \/ \E t \in Tasks : TaskRun(t)
    \/ \E t \in Tasks : TaskDeliver(t)

TaskSpec == DiffInit /\ [][TaskNext]_vars

(***************************************************************************)
(* Reading the log of the current iteration.                               *)
(***************************************************************************)
LogIdx(e) == {i \in 1..Len(log) : log[i].ev = e}

CmdIdx == LogIdx("cmd")

\* the iteration got past the metrics check
TickHadMetrics == Len(log) > 0 /\ log[1].ev = "tick" /\ log[1].res = "metrics"

\* the in-fallback flag when the iteration began
FallbackAtTickStart == Len(log) > 0 /\ log[1].ev = "tick" /\ log[1].n = 1

TickOver == pc = "sleep"

PostOk == \E i \in LogIdx("post") : log[i].res = "200"

FetchOk == \E i \in LogIdx("fetch") : log[i].res = "200"

\* read once the iteration is over: send_telemetry_with_retry returned False
\* (no attempt was answered 200)
TelemetryGaveUp == LogIdx("post") # {} /\ ~PostOk

\* read once the iteration is over: fetch_routes_with_retry returned None
FetchGaveUp == LogIdx("fetch") # {} /\ ~FetchOk

SetFallbackIdx(v) == {i \in LogIdx("set_fallback") : log[i].res = v}

\* the events a step adds to the log of the running iteration
NewEvents == IF Len(log') >= Len(log) /\ SubSeq(log', 1, Len(log)) = log
             THEN SubSeq(log', Len(log) + 1, Len(log'))
             ELSE log'

NoNewCommand == \A i \in 1..Len(NewEvents) : NewEvents[i].ev \notin {"cmd", "flush"}

\* host routes on the overlay interface, as `ip route show` lists them
OverlayHostLines(lines) ==
    {i \in 1..Len(lines) :
        lines[i].dev = "wg0" /\ lines[i].suffix \in {"", "/32"}}

\* the addresses of the model inside 10.254.0.0/24
InsideSubnet == {"10.254.0.1", "10.254.0.2", "10.254.0.3"}

(***************************************************************************)
(* C3: when the agent is Normal and, in a sync tick, the telemetry send    *)
(* or the route fetch fails after its retries, then by the end of the tick *)
(* the in-fallback flag is true, flush_all_routes has been invoked exactly *)
(* once, and no sync of routes was performed.                              *)
(***************************************************************************)
NormalWhenGivingUp ==
    \/ TelemetryGaveUp /\ ~FallbackAtTickStart
    \/ FetchGaveUp /\ (~FallbackAtTickStart \/ SetFallbackIdx("false") # {})

C3_NormalFailureEntersFallback ==
    (TickOver /\ TickHadMetrics /\ NormalWhenGivingUp)
        => /\ in_fallback_mode
           /\ Cardinality(SetFallbackIdx("true")) = 1
           /\ Cardinality(LogIdx("flush")) = 1
           /\ Cardinality(LogIdx("flushed")) = 1
           /\ LogIdx("sync_routes") = {}

\* a Normal agent whose fetch failed after a good POST, its routes flushed
C3_Witness ==
    /\ TickOver
    /\ ~FallbackAtTickStart
    /\ PostOk
    /\ FetchGaveUp
    /\ in_fallback_mode
    /\ \E i \in CmdIdx : log[i].op = "del" /\ log[i].res = "ok"

(***************************************************************************)
(* C4: fallback entry is idempotent.  flush_all_routes is started only by  *)
(* a step that takes the flag from false to true; a send or fetch that     *)
(* gives up while the flag is already true issues no forwarding-table      *)
(* command, leaves the table alone and leaves the flag true.               *)
(***************************************************************************)
GivesUpStep == pc \in {"send", "fetch"} /\ pc' \in {"flush", "sleep"}

C4_FallbackEntryIdempotent ==
    [][ /\ (\E i \in 1..Len(NewEvents) : NewEvents[i].ev \in {"cmd", "flush"})
            => (pc = "flush" /\ in_fallback_mode)
        /\ (pc # "flush" /\ pc' = "flush") => (~in_fallback_mode /\ in_fallback_mode')
        /\ (GivesUpStep /\ in_fallback_mode)
            => (in_fallback_mode' /\ pc' = "sleep" /\ NoNewCommand /\ kernel' = kernel)
      ]_vars

\* a tick that began in Fallback, failed again, and left installed routes alone
C4_Witness ==
    /\ TickOver
    /\ FallbackAtTickStart
    /\ TelemetryGaveUp
    /\ in_fallback_mode
    /\ LogIdx("flush") = {}
    /\ \E i \in OverlayHostLines(kernel) : kernel[i].dst \in InsideSubnet

(***************************************************************************)
(* C5: when the agent is in Fallback and an attempt of the tick's          *)
(* telemetry POST is answered 200, the flag is false right after that      *)
(* attempt, before any route fetch of the tick; the step changes only the  *)
(* flag: it issues no forwarding-table command and leaves the table and    *)
(* the executor's cache as they were.                                      *)
(***************************************************************************)
PostAnswered200 ==
    /\ Len(NewEvents) > 0
    /\ NewEvents[1].ev = "post"
    /\ NewEvents[1].res = "200"

C5_ExitFallbackOnPost ==
    [][ (in_fallback_mode /\ PostAnswered200)
            => /\ ~in_fallback_mode'
               /\ \A i \in 1..Len(log') : log'[i].ev # "fetch"
               /\ NoNewCommand
               /\ kernel' = kernel
               /\ current_routes' = current_routes
      ]_vars

\* recovered on the second attempt, the fetch not yet made, routes still flushed
C5_Witness ==
    /\ pc = "fetch"
    /\ FallbackAtTickStart
    /\ ~in_fallback_mode
    /\ Cardinality(LogIdx("post")) = 2
    /\ PostOk
    /\ LogIdx("fetch") = {}

(***************************************************************************)
(* C8: at the end of every sync tick that had metrics, the in-fallback     *)
(* flag is true iff the tick's telemetry send or its route fetch failed    *)
(* after the retries; a tick whose POST succeeded on a later attempt and   *)
(* whose fetch succeeded never set the flag.                               *)
(***************************************************************************)
C8_FlagIffTickFailed ==
    (TickOver /\ TickHadMetrics)
        => /\ in_fallback_mode <=> (TelemetryGaveUp \/ FetchGaveUp)
           /\ (PostOk /\ FetchOk) => SetFallbackIdx("true") = {}

\* two failed POSTs, the third answered 200, the fetch answered: flag false
C8_Witness ==
    /\ TickOver
    /\ Cardinality(LogIdx("post")) = 3
    /\ PostOk
    /\ FetchOk
    /\ ~in_fallback_mode
    /\ SetFallbackIdx("true") = {}

(***************************************************************************)
(* What the forwarding table holds, read off its lines.                    *)
(***************************************************************************)
\* the table routes dst over relay via on the overlay interface
HasRelay(lines, dst, via) ==
    \E j \in OverlayHostLines(lines) : lines[j].dst = dst /\ lines[j].via = via

\* the table holds an overlay host route for dst
HasHostRoute(lines, dst) == \E j \in OverlayHostLines(lines) : lines[j].dst = dst

\* the overlay host routes of the table for destinations inside the subnet
InSubnetHostLines(lines) ==
    {j \in OverlayHostLines(lines) : lines[j].dst \in InsideSubnet}

Dst(route) == route.dst_cidr[1]

\* the next hop a route list asks for dst ("" when the list does not name dst)
Wanted(R, dst) ==
    LET idx == {i \in 1..Len(R) : Dst(R[i]) = dst}
    IN  IF idx = {} THEN ""
        ELSE R[CHOOSE i \in idx : \A k \in idx : k <= i].next_hop

\* every address of the route list and of the table's overlay host routes
\* lies inside the allowed subnet
AllInsideSubnet(R, lines) ==
    /\ \A i \in 1..Len(R) :
          /\ Dst(R[i]) \in InsideSubnet
          /\ R[i].next_hop \in InsideSubnet \cup {"direct"}
    /\ \A j \in OverlayHostLines(lines) :
          /\ lines[j].dst \in InsideSubnet
          /\ lines[j].via \in InsideSubnet \cup {""}

(***************************************************************************)
(* C1: at the end of a sync tick whose telemetry send succeeded and whose  *)
(* fetch returned a route list R (all addresses inside the allowed subnet, *)
(* every command of the tick succeeding), the forwarding table routes D    *)
(* via H for every relay route (D via H) of R and holds no overlay host    *)
(* route for a destination that R does not name or lists as "direct".      *)
(***************************************************************************)
C1_SyncAppliesFetchedRoutes ==
    (/\ TickOver
     /\ PostOk
     /\ FetchOk
     /\ routes.some
     /\ AllInsideSubnet(routes.val, kernel)
     /\ \A i \in CmdIdx : log[i].res = "ok")
        => \A d \in InsideSubnet :
              LET h == Wanted(routes.val, d)
              IN  IF h \in {"", "direct"} THEN ~HasHostRoute(kernel, d)
                  ELSE HasRelay(kernel, d, h)

FlushReturns == pc = "flush" /\ pc' # "flush"

CleanFlush ==
    /\ \E i \in 1..Len(NewEvents) : NewEvents[i].ev = "flush" /\ NewEvents[i].res = "ok"
    /\ \A i \in 1..Len(NewEvents) : NewEvents[i].ev = "cmd" => NewEvents[i].res = "ok"

Allowed(ip) == ip \in InsideSubnet

CallOf(name) == Len(log') > 0 /\ log'[1].ev = name

C9_SubnetSafety ==
    [][ /\ \A i \in 1..Len(log') :
              log'[i].ev = "cmd"
                  => /\ Allowed(log'[i].dst)
                     /\ log'[i].op = "replace" => Allowed(log'[i].via)
                     /\ log'[i].op \in {"replace", "del"}
        /\ (/\ CallOf("apply_route")
            /\ \/ ~Allowed(log'[1].dst)
               \/ log'[1].via # "direct" /\ ~Allowed(log'[1].via))
            => (log'[1].res = "false" /\ Len(log') = 1 /\ kernel' = kernel)
        /\ (CallOf("flush_all_routes") /\ log'[1].dst = "ok")
            => \A j \in OverlayHostLines(kernel) :
                  ~Allowed(kernel[j].dst)
                      => /\ log'[1].res = "false"
                         /\ \E k \in 1..Len(kernel') : kernel'[k] = kernel[j]
      ]_vars

\* apply_route to a destination inside the subnet over a relay outside it
\* returned False, having issued nothing
C9_Witness ==
    /\ Len(log) = 1
    /\ log[1].ev = "apply_route"
    /\ log[1].dst = "10.254.0.3"
    /\ log[1].via = "192.168.1.5"
    /\ log[1].res = "false"

(***************************************************************************)
(* C2: on the unchanging network where the path over 10.254.0.2 to         *)
(* 10.254.0.3 is cheaper than the direct link, and with every POST and     *)
(* every fetch answered, the relay route "10.254.0.3 via 10.254.0.2" is    *)
(* eventually in the agent's forwarding table and stays there from then on.*)
(***************************************************************************)
C2_RelayEventuallyInstalledAndKept == <>[]HasRelay(kernel, PeerT, PeerC)

(***************************************************************************)
(* C7: recovery reinstalls routes.  At the end of a tick that began in     *)
(* Fallback, whose POST succeeded (leaving Fallback) and whose fetch       *)
(* succeeded, on the unchanged network for which the controller has        *)
(* computed the relay path, every relay route that was in the table when   *)
(* the flush read it is in the table again.                                *)
(***************************************************************************)
RelayPathKnown ==
    LET G == BuildGraph(topology_db)
        relayed == <<AgentId, PeerC, PeerT>>
    IN  /\ AgentExists(topology_db, PeerC)
        /\ OldCost(previous_costs, <<AgentId, PeerT>>) = Finite(PathCost(G, relayed))

C7_RecoveryReinstallsRoutes ==
    (TickOver /\ FallbackAtTickStart /\ PostOk /\ FetchOk /\ RelayPathKnown)
        => \A k \in 1..Len(current_routes) :
              LET dst_ip == current_routes[k][1]
                  next_hop == current_routes[k][2]
              IN  (dst_ip \in InsideSubnet /\ next_hop \in InsideSubnet)
                      => HasRelay(kernel, dst_ip, next_hop)

(***************************************************************************)
(* C10: the commands of one sync pass come in the order ADD (replace for a *)
(* destination the table had no route for), MODIFY (replace for one it had *)
(* a route for), DELETE; and a destination that the fetched list moves to  *)
(* a new relay gets the replace installing its new route, before any       *)
(* delete of the pass.                                                     *)
(***************************************************************************)
SyncPass == pc = "sync" /\ pc' # "sync" /\ routes.some

\* 1 ADD, 2 MODIFY, 3 DELETE, for a command issued against the table `lines`
CmdClass(e, lines) ==
    IF e.op = "del" THEN 3 ELSE IF HasHostRoute(lines, e.dst) THEN 2 ELSE 1

NewCmds == SelectSeq(NewEvents, LAMBDA e : e.ev = "cmd")

Migrating(R, lines) ==
    {d \in InsideSubnet :
        /\ Wanted(R, d) \in InsideSubnet
        /\ HasHostRoute(lines, d)
        /\ ~HasRelay(lines, d, Wanted(R, d))}

C10_AddModifyDeleteOrder ==
    [][ SyncPass
            => /\ \A i, j \in 1..Len(NewCmds) :
                     i < j => CmdClass(NewCmds[i], kernel) <= CmdClass(NewCmds[j], kernel)
               /\ \A d \in Migrating(routes.val, kernel) :
                     \E i \in 1..Len(NewCmds) :
                        /\ NewCmds[i].op = "replace"
                        /\ NewCmds[i].dst = d
                        /\ NewCmds[i].via = Wanted(routes.val, d)
                        /\ \A j \in 1..Len(NewCmds) : NewCmds[j].op = "del" => i < j
      ]_vars

(***************************************************************************)
(* C11: for any desired and current table, calculate_route_diff returns    *)
(* as ADD the entries of desired whose destination current lacks, as       *)
(* MODIFY the entries of desired whose destination current routes over a   *)
(* different next hop, as DELETE the destinations of current that desired  *)
(* lacks; the three key sets are pairwise disjoint, and a destination both *)
(* tables route over the same next hop is in none of them.                 *)
(***************************************************************************)
Entries(name) == {<<log[i].dst, log[i].via>> : i \in LogIdx(name)}

Keys(name) == {log[i].dst : i \in LogIdx(name)}

DiffCalled == Len(log) > 0 /\ log[1].ev = "calculate_route_diff"

C11_RouteDiff ==
    DiffCalled
        => /\ Entries("add") = {e \in Entries("desired") : e[1] \notin Keys("current")}
           /\ Entries("modify") =
                 {e \in Entries("desired") :
                     e[1] \in Keys("current") /\ e \notin Entries("current")}
           /\ Keys("delete") = Keys("current") \ Keys("desired")
           /\ Keys("add") \cap Keys("modify") = {}
           /\ Keys("add") \cap Keys("delete") = {}
           /\ Keys("modify") \cap Keys("delete") = {}
           /\ \A e \in Entries("desired") \cap Entries("current") :
                 e[1] \notin (Keys("add") \cup Keys("modify")) \cup Keys("delete")
           /\ Cardinality(LogIdx("add")) = Cardinality(Keys("add"))
           /\ Cardinality(LogIdx("modify")) = Cardinality(Keys("modify"))
           /\ Cardinality(LogIdx("delete")) = Cardinality(Keys("delete"))

\* a call whose result has an addition, a deletion and an untouched entry
C11_Witness ==
    /\ DiffCalled
    /\ Entries("add") = {<<"10.254.0.3", "10.254.0.2">>}
    /\ Keys("delete") = {"192.168.1.5"}
    /\ Entries("modify") = {}
    /\ Entries("desired") \cap Entries("current") # {}

(***************************************************************************)
(* C12: a sync pass is not aborted by a failing entry.  Every entry of the *)
(* diff between the fetched list and the table is attempted (a replace for *)
(* each destination to install or to move, a delete for each destination   *)
(* the list no longer names), and the pass returns False iff an entry      *)
(* failed (a replace that did not exit zero, a command that timed out).    *)
(***************************************************************************)
SyncReturned(v) ==
    \E i \in 1..Len(NewEvents) : NewEvents[i].ev = "sync_routes" /\ NewEvents[i].res = v

EntryFailed ==
    \E i \in 1..Len(NewCmds) :
        \/ NewCmds[i].res = "timeout"
        \/ NewCmds[i].op = "replace" /\ NewCmds[i].res # "ok"

C12_SyncAttemptsEveryEntry ==
    [][ (SyncPass /\ AllInsideSubnet(routes.val, kernel))
            => /\ \A d \in InsideSubnet :
                     LET h == Wanted(routes.val, d)
                     IN  /\ (h \in InsideSubnet /\ ~HasRelay(kernel, d, h))
                             => \E i \in 1..Len(NewCmds) :
                                   /\ NewCmds[i].op = "replace"
                                   /\ NewCmds[i].dst = d
                                   /\ NewCmds[i].via = h
                         /\ (h = "" /\ HasHostRoute(kernel, d))
                             => \E i \in 1..Len(NewCmds) :
                                   NewCmds[i].op = "del" /\ NewCmds[i].dst = d
               /\ SyncReturned("true") \/ SyncReturned("false")
               /\ SyncReturned("false") <=> EntryFailed
      ]_vars

(***************************************************************************)
(* C13: the retry wrapper of a client with N attempts and backoff list B   *)
(* calls the operation at most N times, numbering the attempts from 0;     *)
(* the first attempt that returns a value ends the wrapper, which returns  *)
(* that value; after failed attempt i < N-1 it waits B[min(i, |B|-1)] and  *)
(* tries again; after failed attempt N-1 it does not wait and raises       *)
(* RetryExhausted; it raises in no other case.                             *)
(***************************************************************************)
Operations == LogIdx("operation")

\* B[min(i, |B|-1)] of the claim, B indexed from 0
ClaimedDelay(B, i) == IF i < Len(B) - 1 THEN B[i + 1] ELSE B[Len(B)]

RetryEntered == Len(log) > 0 /\ log[1].ev = "retry_attempts"

C13_RetryWithBackoff ==
    RetryEntered
        => LET N == log[1].n
               B == ClientRetryBackoff
           IN  /\ Cardinality(Operations) <= N
               /\ \A i \in Operations :
                     /\ log[i].n = Cardinality({j \in Operations : j < i})
                     /\ i < Len(log)
                     /\ log[i].res = "value"
                            => (log[i + 1].ev = "return" /\ i + 1 = Len(log))
                     /\ (log[i].res # "value" /\ log[i].n < N - 1)
                            => /\ log[i + 1].ev = "sleep"
                               /\ log[i + 1].n = ClaimedDelay(B, log[i].n)
                     /\ (log[i].res # "value" /\ log[i].n >= N - 1)
                            => (log[i + 1].ev = "raise" /\ i + 1 = Len(log))
               /\ (LogIdx("raise") # {})
                     <=> /\ Cardinality(Operations) = N
                         /\ \A i \in Operations : log[i].res # "value"
               /\ (pc = "done") <=> (LogIdx("raise") \cup LogIdx("return") # {})
               /\ pc = "done" => log[Len(log)].ev # "sleep"

\* four attempts with the two-element backoff list: waits 1, 2, 2, the last
\* attempt raised, RetryExhausted
C13_Witness ==
    /\ RetryEntered
    /\ pc = "done"
    /\ log[1].n = 4
    /\ ClientRetryBackoff = <<1, 2>>
    /\ Cardinality(Operations) = 4
    /\ [k \in 1..3 |-> log[2 * k + 3].n] = <<1, 2, 2>>
    /\ log[Len(log)].ev = "raise"
    /\ log[Len(log) - 1].res = "raises"

(***************************************************************************)
(* C14: RetryExhausted stays inside the client.  send_telemetry_with_retry *)
(* returns True (the loop goes on to the fetch) exactly on an attempt      *)
(* answered 200 and False (the loop enters fallback) exactly when the last *)
(* of the N attempts was not; fetch_routes_with_retry returns a route list *)
(* (the loop goes on to sync_routes) exactly on an attempt answered 200    *)
(* and None exactly when the last of the N attempts was not; any other     *)
(* answer or transport error is a failed attempt, after which the wrapper  *)
(* waits and tries again.                                                  *)
(***************************************************************************)
NewAttempt(name) == Len(NewEvents) > 0 /\ NewEvents[1].ev = name

LastAttemptFailed == NewEvents[1].res # "200" /\ NewEvents[1].n = RetryAttempts - 1

OnlyNotFound == LogIdx("fetch") # {} /\ \A i \in LogIdx("fetch") : log[i].res = "404"

C15_NotFoundIsNoData ==
    OnlyNotFound
        => /\ ~in_fallback_mode
           /\ SetFallbackIdx("true") = {}
           /\ LogIdx("flush") = {}
           /\ pc # "flush"

(***************************************************************************)
(* C16: a 200 answer carrying an empty route list is a successful fetch:   *)
(* the attempt that receives it returns it at once (no backoff, no further *)
(* attempt), the in-fallback flag is not set and flush_all_routes is not   *)
(* called; the sync that follows issues exactly one delete per route that  *)
(* is installed at that moment, and nothing else.                          *)
(***************************************************************************)
Installed(lines) == DictKeySet(ParseRouteLines(lines, EmptyDict))

C16_EmptyListIsNotFallback ==
    [][ /\ (NewAttempt("fetch") /\ NewEvents[1].res = "200" /\ routes' = Some(<< >>))
            => /\ pc' = "sync"
               /\ Len(NewEvents) = 1
               /\ ~in_fallback_mode'
        /\ (SyncPass /\ routes.val = << >>)
            => /\ ~in_fallback_mode'
               /\ \A i \in 1..Len(NewEvents) : NewEvents[i].ev \notin {"flush", "set_fallback"}
               /\ Len(NewCmds) = Cardinality(Installed(kernel))
               /\ \A i \in 1..Len(NewCmds) : NewCmds[i].op = "del"
               /\ {NewCmds[i].dst : i \in 1..Len(NewCmds)} = Installed(kernel)
      ]_vars

(***************************************************************************)
(* A reference for the solver claims, computed from the stored telemetry   *)
(* and not from the solver's graph: the cost of a link is rtt + loss * K   *)
(* when its RTT was reported, and the distance from s to t is the least    *)
(* total cost of a walk over such links (Bellman-Ford, by number of hops),  *)
(* as a set: empty when no such walk exists.                               *)
(***************************************************************************)
RttPresent(db, u, v) ==
    /\ DictHas(db, u)
    /\ DictHas(DictGet(db, u).metrics, v)
    /\ DictGet(DictGet(db, u).metrics, v).rtt.some

LinkCost(db, u, v) ==
    LET m == DictGet(DictGet(db, u).metrics, v)
    IN  m.rtt.val + (m.loss * PenaltyFactor) \div 100

RefNodes(db) ==
    DictKeySet(db) \cup UNION {DictKeySet(db[i][2].metrics) : i \in 1..Len(db)}

SetMin(S) == CHOOSE x \in S : \A y \in S : x <= y

RECURSIVE RefDistK(_, _, _, _)
RefDistK(db, s, t, k) ==
    IF k = 0 THEN (IF s = t THEN {0} ELSE {})
    ELSE LET relaxed == UNION {{d + LinkCost(db, u, t) : d \in RefDistK(db, s, u, k - 1)} :
                                  u \in {x \in RefNodes(db) : RttPresent(db, x, t)}}
             all == relaxed \cup RefDistK(db, s, t, k - 1)
         IN  IF all = {} THEN {} ELSE {SetMin(all)}

RefDist(db, s, t) == RefDistK(db, s, t, Cardinality(RefNodes(db)))

\* the last solver call, as the log shows it
Called == LogIdx("compute_routes_for") # {}

Source == log[CHOOSE i \in LogIdx("compute_routes_for") : TRUE].dst

Emitted(t) == \E i \in LogIdx("route") : log[i].dst = t

HistoryBefore(s, t) == {log[i].n : i \in {j \in LogIdx("history") : log[j].op = s /\ log[j].dst = t}}

HistoryNow(s, t) ==
    IF DictHas(previous_costs, <<s, t>>) THEN {DictGet(previous_costs, <<s, t>>)} ELSE {}

(***************************************************************************)
(* C17: hysteresis.  A pass for S emits a route for T only when T has a    *)
(* finite shortest-path cost c and, if a cost c0 is in the history of      *)
(* (S,T), c < (1 - hysteresis) * c0; the history of (S,T) then becomes c.  *)
(* A pass that emits no route for T leaves the history of (S,T) as it was, *)
(* and no pass changes the history of another source, so the history of a  *)
(* pair is the cost it was last emitted at.                                *)
(***************************************************************************)
C17_Hysteresis ==
    Called
        => \A t \in SolverSources :
              /\ Emitted(t)
                    => /\ RefDist(topology_db, Source, t) # {}
                       /\ \A c \in RefDist(topology_db, Source, t) :
                          \A c0 \in HistoryBefore(Source, t) :
                             c * 100 < (100 - HysteresisPct) * c0
                       /\ HistoryNow(Source, t) = RefDist(topology_db, Source, t)
              /\ ~Emitted(t) => HistoryNow(Source, t) = HistoryBefore(Source, t)
              /\ \A s \in SolverSources \ {Source} : HistoryNow(s, t) = HistoryBefore(s, t)

\* the history held 100 for (10.254.0.1, 10.254.0.3); at cost 80 the route is
\* emitted and the history becomes 80
C17_Witness ==
    /\ Called
    /\ Source = AgentId
    /\ HistoryBefore(AgentId, PeerT) = {100}
    /\ RefDist(topology_db, AgentId, PeerT) = {80}
    /\ Emitted(PeerT)
    /\ HistoryNow(AgentId, PeerT) = {80}

\* the history held 100; at cost 90 no route is emitted
HysteresisSuppresses ==
    /\ Called
    /\ Source = AgentId
    /\ HistoryBefore(AgentId, PeerT) = {100}
    /\ RefDist(topology_db, AgentId, PeerT) = {90}
    /\ ~Emitted(PeerT)
    /\ HistoryNow(AgentId, PeerT) = {100}

(***************************************************************************)
(* C18: a pass for S that finds no history entry for (S,T), as at the      *)
(* start of the controller and after reset_history, and a finite           *)
(* shortest-path cost from S to T emits a route for T.                     *)
(***************************************************************************)
C18_FirstPassEmits ==
    Called
        => \A t \in SolverSources \ {Source} :
              (HistoryBefore(Source, t) = {} /\ RefDist(topology_db, Source, t) # {})
                  => Emitted(t)

\* the first pass after reset_history, for a source with two reachable targets
C18_Witness ==
    /\ Called
    /\ log[1].ev = "reset_history"
    /\ LogIdx("history") = {}
    /\ Source = AgentId
    /\ RefDist(topology_db, AgentId, PeerT) # {}
    /\ Emitted(PeerT)
    /\ Emitted(PeerC)

(***************************************************************************)
(* C19: the next hop of every emitted route (S,T) agrees with the          *)
(* reference distances: "direct" with reason "default" only when the edge  *)
(* S -> T alone has the minimum cost, and otherwise a node H other than S  *)
(* and T with reason "optimized_path" such that the link S -> H followed   *)
(* by a shortest path from H to T has the minimum cost.                    *)
(***************************************************************************)
ViaIsOptimal(db, s, t, h) ==
    /\ h \notin {s, t}
    /\ RttPresent(db, s, h)
    /\ RefDist(db, h, t) # {}
    /\ \A d \in RefDist(db, h, t) : RefDist(db, s, t) = {LinkCost(db, s, h) + d}

DirectIsOptimal(db, s, t) ==
    /\ RttPresent(db, s, t)
    /\ RefDist(db, s, t) = {LinkCost(db, s, t)}

C19_NextHopIsOptimal ==
    Called
        => \A i \in LogIdx("route") :
              /\ RefDist(topology_db, Source, log[i].dst) # {}
              /\ IF log[i].via = "direct"
                 THEN /\ log[i].res = "default"
                      /\ DirectIsOptimal(topology_db, Source, log[i].dst)
                 ELSE /\ log[i].res = "optimized_path"
                      /\ ViaIsOptimal(topology_db, Source, log[i].dst, log[i].via)

\* 10.254.0.1 -> 10.254.0.3 costs 210, the two links over 10.254.0.2 cost 30
\* each: 10.254.0.3 via 10.254.0.2, and 10.254.0.2 direct
C19_Witness ==
    /\ Called
    /\ Source = AgentId
    /\ RttPresent(topology_db, AgentId, PeerT)
    /\ LinkCost(topology_db, AgentId, PeerT) = 210
    /\ RefDist(topology_db, AgentId, PeerT) = {60}
    /\ \E i \in LogIdx("route") :
          log[i].dst = PeerT /\ log[i].via = PeerC /\ log[i].res = "optimized_path"
    /\ \E i \in LogIdx("route") :
          log[i].dst = PeerC /\ log[i].via = "direct" /\ log[i].res = "default"

(***************************************************************************)
(* C20: the routes emitted for S name no route to S itself, none to a      *)
(* target without a finite shortest-path cost, and none whose first link   *)
(* (S -> next hop, or S -> T when direct) or whose remaining path uses a   *)
(* link reported with an absent RTT; a source that is not a node of the    *)
(* graph gets no routes.                                                   *)
(***************************************************************************)
C20_EmittedRoutesAreUsable ==
    Called
        => /\ \A i \in LogIdx("route") :
                 /\ log[i].dst # Source
                 /\ RefDist(topology_db, Source, log[i].dst) # {}
                 /\ IF log[i].via = "direct"
                    THEN RttPresent(topology_db, Source, log[i].dst)
                    ELSE /\ RttPresent(topology_db, Source, log[i].via)
                         /\ RefDist(topology_db, log[i].via, log[i].dst) # {}
           /\ Source \notin RefNodes(topology_db) => LogIdx("route") = {}

\* the link 10.254.0.1 -> 10.254.0.3 is reported down; 10.254.0.3 is routed
\* over 10.254.0.2
C20_Witness ==
    /\ Called
    /\ Source = AgentId
    /\ DictHas(topology_db, AgentId)
    /\ DictHas(DictGet(topology_db, AgentId).metrics, PeerT)
    /\ ~RttPresent(topology_db, AgentId, PeerT)
    /\ \E i \in LogIdx("route") : log[i].dst = PeerT /\ log[i].via = PeerC

(***************************************************************************)
(* C21: whenever no store is between its assignment and its return, the    *)
(* entry of every agent is exactly the timestamp and the metrics of the    *)
(* store for that agent that returned last (also when its timestamp is the *)
(* older one), and there is no entry for an agent nobody stored; a step    *)
(* changes the entry of an agent only if it is the assignment of a store   *)
(* for that agent.                                                         *)
(***************************************************************************)
StoresFor(a) == {i \in 1..Len(log) : log[i].agent_id = a}

LastStoreFor(a) == log[CHOOSE i \in StoresFor(a) : \A j \in StoresFor(a) : j <= i]

EntryOf(db, a) == IF DictHas(db, a) THEN {DictGet(db, a)} ELSE {}

C21_LastStoreWins ==
    [][ /\ lock' = 0
            => \A a \in {AgentId, PeerC, PeerT} :
                  EntryOf(topology_db', a) =
                      IF StoresFor(a)' = {} THEN {}
                      ELSE {[timestamp |-> LastStoreFor(a)'.timestamp,
                             metrics |-> LastStoreFor(a)'.metrics]}
        /\ \A a \in {AgentId, PeerC, PeerT} :
              EntryOf(topology_db', a) # EntryOf(topology_db, a)
                  => \E t \in Threads : threads[t].pc = "assign" /\ threads[t].agent_id = a
                                          /\ threads'[t].pc = "release"
      ]_vars

\* of two stores for 10.254.0.1 the one with the older timestamp returned
\* last and its report is the entry; 10.254.0.2 keeps its own
C21_Witness ==
    /\ lock = 0
    /\ Len(log) = 3
    /\ log[1].agent_id = PeerC
    /\ log[2].agent_id = AgentId /\ log[2].timestamp = 2
    /\ log[3].agent_id = AgentId /\ log[3].timestamp = 1
    /\ log[3].metrics # log[2].metrics
    /\ DictGet(topology_db, AgentId) = [timestamp |-> 1, metrics |-> log[3].metrics]
    /\ DictGet(topology_db, PeerC) = [timestamp |-> log[1].timestamp, metrics |-> log[1].metrics]

(***************************************************************************)
(* C22: a change made to a snapshot returned by get_all_data (an agent     *)
(* added or removed, a timestamp set, a metric set or removed) changes     *)
(* neither what get_agent_data returns for any agent nor what the next     *)
(* get_all_data returns.                                                   *)
(***************************************************************************)
MetricsValue(h, id) == [i \in 1..Len(h[id]) |-> <<h[id][i][1], h[h[id][i][2].ref]>>]

EntryValue(h, id) ==
    [timestamp |-> DictGet(h[id], "timestamp"),
     metrics |-> MetricsValue(h, DictGet(h[id], "metrics").ref)]

DataValue(h, id) == [i \in 1..Len(h[id]) |-> <<h[id][i][1], EntryValue(h, h[id][i][2].ref)>>]

\* the value get_agent_data(agent_id) returns
GetAgentDataValue(h, agent_id) ==
    IF DictHas(h[DataId], agent_id) THEN Some(EntryValue(h, DictGet(h[DataId], agent_id).ref))
    ELSE None

\* the value get_all_data() would return
GetAllDataValue(h) == LET r == HeapGetAllData(h) IN DataValue(r.heap, r.result)

C22_SnapshotIsolation ==
    [][ log'[1].ev = "mutate"
            => /\ \A a \in {AgentId, PeerC, PeerT, OutsideIp} :
                     GetAgentDataValue(heap', a) = GetAgentDataValue(heap, a)
               /\ GetAllDataValue(heap') = GetAllDataValue(heap)
      ]_vars

\* a snapshot whose metric was changed differs from what the database holds
C22_Witness ==
    /\ log # << >>
    /\ log[1].ev = "mutate"
    /\ log[1].res = "metric"
    /\ snapshot # 0
    /\ DictHas(heap[snapshot], AgentId)
    /\ GetAgentDataValue(heap, AgentId).some
    /\ EntryValue(heap, DictGet(heap[snapshot], AgentId).ref).timestamp
          = GetAgentDataValue(heap, AgentId).val.timestamp
    /\ EntryValue(heap, DictGet(heap[snapshot], AgentId).ref)
          # GetAgentDataValue(heap, AgentId).val

(***************************************************************************)
(* C23: a body that violates the schema (a required field missing,         *)
(* loss_rate outside [0,1], a negative rtt_ms, timestamp <= 0, an empty    *)
(* metrics list) is answered 422 and leaves the topology store and the     *)
(* cost history as they were; any other body is answered 200 and the       *)
(* sender's entry becomes its timestamp and metrics, the other entries     *)
(* staying as they were.                                                   *)
(***************************************************************************)
Posted == log'[1].ev = "POST /api/v1/telemetry"

MetricViolatesSchema(m) ==
    \/ ~m.target_ip.some
    \/ ~m.loss_rate.some
    \/ m.loss_rate.some /\ (m.loss_rate.val < 0 \/ m.loss_rate.val > 100)
    \/ m.rtt_ms.some /\ m.rtt_ms.val.some /\ m.rtt_ms.val.val < 0

ViolatesSchema(body) ==
    \/ ~body.agent_id.some
    \/ ~body.timestamp.some
    \/ ~body.metrics.some
    \/ body.timestamp.some /\ body.timestamp.val <= 0
    \/ body.metrics.some /\ body.metrics.val = << >>
    \/ body.metrics.some
           /\ \E i \in 1..Len(body.metrics.val) : MetricViolatesSchema(body.metrics.val[i])

\* the stored metrics of a body: target_ip -> rtt and loss, as posted
StoredMetrics(body) ==
    [i \in 1..Len(body.metrics.val) |->
        <<body.metrics.val[i].target_ip.val,
          [rtt |-> IF body.metrics.val[i].rtt_ms.some THEN body.metrics.val[i].rtt_ms.val
                   ELSE NoRtt,
           loss |-> body.metrics.val[i].loss_rate.val]>>]

Requested == log'[1].ev = "GET /api/v1/routes"

C24_NotFoundIffNoEntry ==
    [][ Requested
          => /\ log'[1].res = "404" <=> EntryOf(topology_db, log'[1].arg) = {}
             /\ log'[1].res = "404" => UNCHANGED <<topology_db, previous_costs>>
             /\ log'[1].res # "404" => log'[1].res = "200" /\ UNCHANGED topology_db
      ]_vars

\* an agent that was given routes before is answered 404 once its entry is
\* gone, while another agent's entry is still there
C24_Witness ==
    /\ log # << >>
    /\ log[1].ev = "GET /api/v1/routes"
    /\ log[1].res = "404"
    /\ \E t \in {AgentId, PeerC, PeerT} : HistoryNow(log[1].arg, t) # {}
    /\ topology_db # EmptyDict

(***************************************************************************)
(* C25: remove_stale_agents(max_age) removes exactly the entries whose age *)
(* now - timestamp is strictly greater than max_age, returns exactly the   *)
(* ids it removed, each once, and leaves every entry whose age is at most  *)
(* max_age, the age equal to max_age included, present and unchanged.      *)
(***************************************************************************)
Swept == log'[1].ev = "remove_stale_agents"

\* now - ts of the entry of a
Age(db, a, now) == {now - e.timestamp : e \in EntryOf(db, a)}

StaleAgents(db, now, max_age) ==
    {a \in {AgentId, PeerC, PeerT} : \E age \in Age(db, a, now) : age > max_age}

C25_RemoveStaleIsExact ==
    [][ Swept
          => LET stale == StaleAgents(topology_db, log'[1].arg.current_time,
                                      log'[1].arg.max_age_seconds)
             IN  /\ \A a \in {AgentId, PeerC, PeerT} :
                       EntryOf(topology_db', a)
                           = IF a \in stale THEN {} ELSE EntryOf(topology_db, a)
                 /\ SeqToSet(log'[1].out) = stale
                 /\ Len(log'[1].out) = Cardinality(stale)
                 /\ UNCHANGED previous_costs
      ]_vars

\* a sweep removed one entry and kept another whose age equals max_age
C25_Witness ==
    /\ log # << >>
    /\ log[1].ev = "remove_stale_agents"
    /\ log[1].out # << >>
    /\ \E a \in {AgentId, PeerC, PeerT} :
          Age(topology_db, a, log[1].arg.current_time) = {log[1].arg.max_age_seconds}

(***************************************************************************)
(* C26: whatever is appended to a SlidingWindowBuffer of capacity W, its   *)
(* length never exceeds W, after n appends it is min(n, W), and its        *)
(* contents are the last min(n, W) appended items in the order of their    *)
(* insertion.  The buffers are the loss and RTT windows of the peers; the  *)
(* items appended to them are read from the results of the cycles.         *)
(***************************************************************************)
ResultOf(e, ip) == CHOOSE r \in SeqToSet(e.results) : r.target = ip

\* the items appended to the loss window of ip so far
LossSamples(ip) == [i \in 1..Len(log) |-> ResultOf(log[i], ip).loss]

\* the items appended to the RTT window of ip so far
RttSamples(ip) ==
    LET ok == SelectSeq([i \in 1..Len(log) |-> ResultOf(log[i], ip)],
                        LAMBDA r : r.rtt_ms.some)
    IN  [i \in 1..Len(ok) |-> ok[i].rtt_ms.val]

Smaller(a, b) == IF a < b THEN a ELSE b

LastItems(q, W) == SubSeq(q, Len(q) - Smaller(Len(q), W) + 1, Len(q))

IsWindowOf(b, appended) ==
    /\ Len(b.buffer) <= b.maxlen
    /\ Len(b.buffer) = Smaller(Len(appended), b.maxlen)
    /\ b.buffer = LastItems(appended, b.maxlen)

C26_WindowBound ==
    \A ip \in SeqToSet(PeerIps) :
        /\ IsWindowOf(buffers[ip].loss, LossSamples(ip))
        /\ IsWindowOf(buffers[ip].rtt, RttSamples(ip))

\* a full window of two or more items that has evicted: it no longer holds
\* the first items appended
C26_Witness ==
    /\ buffers[PeerC].rtt.maxlen > 1
    /\ Len(RttSamples(PeerC)) > buffers[PeerC].rtt.maxlen
    /\ buffers[PeerC].rtt.buffer # SubSeq(RttSamples(PeerC), 1, buffers[PeerC].rtt.maxlen)

(***************************************************************************)
(* C27: after n cycles the smoothed loss reported for a peer is the number *)
(* of failed attempts (no reply, or an exception) among the last min(n, W) *)
(* attempts divided by min(n, W), and lies in [0, 1].                      *)
(***************************************************************************)
Cycles == Len(log)

\* the Metric reported for ip by the last cycle
Reported(ip) == CHOOSE m \in SeqToSet(log[Cycles].metrics) : m.target_ip = ip

\* the cycles inside the window of ip
InWindow(ip) == (Cycles - Smaller(Cycles, buffers[ip].loss.maxlen) + 1)..Cycles

Failed(ip) == {i \in InWindow(ip) : log[i].echoes[ip].kind # "delay"}

C27_SmoothedLoss ==
    Cycles > 0
      => /\ latest_metrics = Some(log[Cycles].metrics)
         /\ \A ip \in SeqToSet(PeerIps) :
              /\ Reported(ip).loss_rate
                    = FloatDiv(Cardinality(Failed(ip)) * Unit, Cardinality(InWindow(ip)))
              /\ Reported(ip).loss_rate >= 0
              /\ Reported(ip).loss_rate <= Unit

\* more cycles than the window holds, and a loss that is neither 0 nor 1
C27_Witness ==
    /\ Cycles > buffers[PeerC].loss.maxlen
    /\ Reported(PeerC).loss_rate > 0
    /\ Reported(PeerC).loss_rate < Unit

(***************************************************************************)
(* C28: the rtt reported for a peer is absent whenever no probe of the     *)
(* peer has succeeded yet or every attempt inside the window (the last W)  *)
(* failed, whatever succeeded before the window; in every other case it is *)
(* present and >= 0.                                                       *)
(***************************************************************************)
Succeeded(ip) == {i \in 1..Cycles : log[i].echoes[ip].kind = "delay"}

C28_RttAbsentWhenWindowFailed ==
    Cycles > 0
      => \A ip \in SeqToSet(PeerIps) :
            IF Succeeded(ip) = {} \/ Failed(ip) = InWindow(ip)
            THEN ~Reported(ip).rtt_ms.some
            ELSE Reported(ip).rtt_ms.some /\ Reported(ip).rtt_ms.val >= 0

(***************************************************************************)
(* C29: after every append, evicting or not, the mean of a                 *)
(* SlidingWindowBuffer is the sum of its contents divided by their count   *)
(* and so lies between the smallest and the largest of them; it is absent  *)
(* exactly when the buffer is empty.                                       *)
(***************************************************************************)
Windows == {buffers[ip].rtt : ip \in SeqToSet(PeerIps)}
               \cup {buffers[ip].loss : ip \in SeqToSet(PeerIps)}

MeanIsWithinContents(b) ==
    LET mean == GetMovingAverage(b)
    IN  /\ mean.some <=> b.buffer # << >>
        /\ mean.some
              => /\ mean.val = FloatDiv(FloatSum(0, b.buffer), Len(b.buffer))
                 /\ \A x \in SeqToSet(b.buffer) :
                       (\A y \in SeqToSet(b.buffer) : x <= y) => x <= mean.val
                 /\ \A x \in SeqToSet(b.buffer) :
                       (\A y \in SeqToSet(b.buffer) : y <= x) => mean.val <= x

C29_MeanWithinContents == \A b \in Windows : MeanIsWithinContents(b)

(***************************************************************************)
(* C30: a probe_all cycle appends exactly one sample to the loss buffer of *)
(* every configured peer, 0.0 for a reply and 1.0 for a timeout or an      *)
(* exception of the echo call, and one sample to the RTT buffer of a peer  *)
(* exactly when that peer replied; the RTT buffer of a peer that did not   *)
(* reply stays as it was, and nothing else in the buffers changes.         *)
(***************************************************************************)
\* the contents of window b after one append of x
Pushed(b, x) == LastItems(Append(b.buffer, x), b.maxlen)

LastEchoes == log'[Len(log')].echoes

C30_OneSamplePerPeerPerCycle ==
    [][ Len(log') = Len(log) + 1
          => /\ DOMAIN buffers' = SeqToSet(PeerIps)
             /\ \A ip \in SeqToSet(PeerIps) :
                   /\ buffers'[ip].loss.maxlen = buffers[ip].loss.maxlen
                   /\ buffers'[ip].rtt.maxlen = buffers[ip].rtt.maxlen
                   /\ IF LastEchoes[ip].kind = "delay"
                      THEN /\ buffers'[ip].loss.buffer = Pushed(buffers[ip].loss, 0)
                           /\ \E x \in SeqToSet(buffers'[ip].rtt.buffer) :
                                 /\ x >= 0
                                 /\ buffers'[ip].rtt.buffer = Pushed(buffers[ip].rtt, x)
                      ELSE /\ buffers'[ip].loss.buffer = Pushed(buffers[ip].loss, Unit)
                           /\ buffers'[ip].rtt = buffers[ip].rtt
      ]_vars

\* a cycle in which one peer replied and the echo call of the other, which
\* had replied before, raised an exception
C30_Witness ==
    /\ Cycles > 0
    /\ log[Cycles].echoes[PeerC].kind = "raises"
    /\ log[Cycles].echoes[PeerT].kind = "delay"
    /\ buffers[PeerC].rtt.buffer # << >>
    /\ buffers[PeerC].loss.buffer[Len(buffers[PeerC].loss.buffer)] = Unit

(***************************************************************************)
(* C34: while no probe cycle has published metrics, a sync tick goes       *)
(* straight to its sleep: it posts no telemetry, fetches no routes, issues *)
(* no forwarding-table command and leaves the in-fallback flag as it was.  *)
(* Telemetry is posted only once latest_metrics holds a Metric list.       *)
(***************************************************************************)
TickBegins == pc = "top" /\ pc' # "top"

Quiet(events) ==
    \A i \in 1..Len(events) :
        events[i].ev \notin {"post", "fetch", "cmd", "flush", "set_fallback", "sync_routes"}

C34_NoMetricsNoSync ==
    [][ /\ ~latest_metrics.some /\ TickBegins
            => /\ pc' = "sleep"
               /\ Quiet(log')
               /\ ~telemetry'.some
               /\ UNCHANGED <<in_fallback_mode, kernel, current_routes, routes>>
        /\ ~Quiet(log') => latest_metrics.some
      ]_vars

\* a tick that found no metrics is asleep, and no probe cycle has completed
C34_Witness ==
    /\ pc = "sleep"
    /\ ~latest_metrics.some
    /\ log # << >>
    /\ log[1].ev = "tick"
    /\ log[1].res = "no_metrics"

(***************************************************************************)
(* C35: the cost history of a pair (S,T) changes only in a compute pass    *)
(* for source S that emits a route for T, and becomes the cost of that     *)
(* route.  Telemetry posts, route requests answered 404, passes that emit  *)
(* nothing for T and passes for other sources leave it as it was (and so   *)
(* do clear() and the sweep of the topology store).                        *)
(***************************************************************************)
HistoryNext(s, t) ==
    IF DictHas(previous_costs', <<s, t>>) THEN {DictGet(previous_costs', <<s, t>>)} ELSE {}

\* the answer of the step is a route list for s with a route to t
EmitsRoute(s, t) ==
    /\ Requested
    /\ log'[1].arg = s
    /\ log'[1].res = "200"
    /\ \E i \in 1..Len(log'[1].out) : log'[1].out[i].dst_cidr[1] = t

C35_HistoryChangesOnlyOnEmit ==
    [][ \A s, t \in {AgentId, PeerC, PeerT} :
          IF EmitsRoute(s, t)
          THEN HistoryNext(s, t) = RefDist(topology_db, s, t) /\ HistoryNext(s, t) # {}
          ELSE HistoryNext(s, t) = HistoryNow(s, t)
      ]_vars

\* a pass for 10.254.0.1 emitted nothing for 10.254.0.3, whose history entry
\* differs from the present cost, while another source has an entry too
C35_Witness ==
    /\ log # << >>
    /\ log[1].ev = "GET /api/v1/routes"
    /\ log[1].arg = AgentId
    /\ log[1].res = "200"
    /\ \A i \in 1..Len(log[1].out) : log[1].out[i].dst_cidr[1] # PeerT
    /\ HistoryNow(AgentId, PeerT) # {}
    /\ HistoryNow(AgentId, PeerT) # RefDist(topology_db, AgentId, PeerT)
    /\ HistoryNow(PeerC, PeerT) # {}

(***************************************************************************)
(* C38: a node that never posted telemetry and is known only as a probe    *)
(* target is a node of the graph: a pass for a reporting agent S emits a   *)
(* route toward it whenever it has a finite shortest-path cost that the    *)
(* hysteresis admits, be the path the direct link or a relay whose last    *)
(* hop ends at the silent target.                                          *)
(***************************************************************************)
SilentTargets(db) == RefNodes(db) \ DictKeySet(db)

Admitted(s, t) ==
    /\ RefDist(topology_db, s, t) # {}
    /\ \A c \in RefDist(topology_db, s, t) :
       \A c0 \in HistoryBefore(s, t) : c * 100 < (100 - HysteresisPct) * c0

ResetStep == Len(log') = 1 /\ log'[1].ev = "reset_history"

C39_HistoryOnlyDecreases ==
    [][ ~ResetStep
          => \A s, t \in SolverSources :
                /\ HistoryNow(s, t) # {} => HistoryNext(s, t) # {}
                /\ \A c0 \in HistoryNow(s, t) : \A c \in HistoryNext(s, t) :
                      /\ c <= c0
                      /\ (Called' /\ Source' = s /\ Emitted(t)')
                            => c * 100 < (100 - HysteresisPct) * c0
      ]_vars

\* 60 was emitted for (10.254.0.1, 10.254.0.3) over 10.254.0.2; that path is
\* gone, the direct link costs 100, and the pass emits no route for the pair
C39_Witness ==
    /\ Called
    /\ Source = AgentId
    /\ HistoryBefore(AgentId, PeerT) = {60}
    /\ RefDist(topology_db, AgentId, PeerT) = {100}
    /\ ~RttPresent(topology_db, PeerC, PeerT)
    /\ ~Emitted(PeerT)
    /\ HistoryNow(AgentId, PeerT) = {60}

(***************************************************************************)
(* C37: apply_route(dest, "direct") issues a delete and reports success    *)
(* when the delete succeeds or fails because the route does not exist; a   *)
(* delete that fails for another reason (a non-zero exit although the      *)
(* route exists, or a timeout) reports failure, and so does a replace that *)
(* exits non-zero or times out.                                            *)
(***************************************************************************)
RouteExists(lines, dst_ip) ==
    \E i \in 1..Len(lines) : IsHostLineFor(lines[i], dst_ip, WgInterface)

C37_DeleteFailureIsReported ==
    [][ (CallOf("apply_route") /\ Len(log') = 2)
          => IF log'[1].via = "direct"
             THEN /\ log'[2].op = "del"
                  /\ log'[1].res = "true"
                        <=> \/ log'[2].res = "ok"
                            \/ log'[2].res = "nonzero" /\ ~RouteExists(kernel, log'[1].dst)
             ELSE /\ log'[2].op = "replace"
                  /\ log'[1].res = "true" <=> log'[2].res = "ok"
      ]_vars

(***************************************************************************)
(* The loops of the agent, under LifeSpec.                                 *)
(***************************************************************************)
Loops == 1..Len(loops)

\* the loop takes a step
Steps(i) == i \in Loops /\ loops'[i] # loops[i]

\* the loop passes `while self.running:` into the body
BeginsIteration(i) ==
    /\ Steps(i)
    /\ loops[i].pc = "while"
    /\ loops'[i].pc \in {"run_once", "get_metrics"}

\* the thread function returns
Terminates(i) == Steps(i) /\ loops'[i].pc = "stopped"

\* the main thread returns from stop() at its first statement
StopReturnsAtOnce == main.pc = "idle" /\ main' = MainIdle("stop") /\ main' # main

\* stop() has set `running` to False since the loop was started: `running`
\* is False now, or start() has been called again since
StopSignalled(i) == ~running \/ i \notin {prober_thread, executor_thread}

AliveLoops(target) == {i \in Loops : loops[i].target = target /\ Alive(i)}

(***************************************************************************)
(* C31: once stop() has set `running` to False, a loop finishes at most    *)
(* the iteration it is in: it begins no iteration, and the first time it   *)
(* comes to `while self.running` it terminates; the main thread never      *)
(* joins, and nothing changes, when stop() is called on an agent that is   *)
(* not running.                                                            *)
(***************************************************************************)
C31_StopEndsLoops ==
    [][ /\ \A i \in Loops :
              /\ StopSignalled(i) => ~BeginsIteration(i)
              /\ (StopSignalled(i) /\ loops[i].pc = "while" /\ Steps(i)) => Terminates(i)
              /\ ~Alive(i) => ~Steps(i)
        /\ (~running /\ main.pc = "idle")
              => /\ main'.pc \notin {"join_prober", "join_executor"}
                 /\ StopReturnsAtOnce
                       => UNCHANGED <<agentVars, execVars, loopVars, ctrlVars, proberVars,
                                      storeVars, taskVars, loops, state_lock,
                                      prober_thread, executor_thread>>
      ]_vars

(***************************************************************************)
(* C32: an exception raised in a probe cycle or in a sync cycle does not   *)
(* terminate the loop: from the handler the loop goes to its sleep and     *)
(* from the sleep to `while self.running`, where it begins another         *)
(* iteration if `running` is True; a loop terminates only at               *)
(* `while self.running`, and only when `running` is False.                 *)
(***************************************************************************)
C32_ExceptionKeepsLoop ==
    [][ \A i \in Loops :
           /\ (loops[i].pc = "except" /\ Steps(i)) => loops'[i].pc = "sleep"
           /\ (loops[i].pc = "sleep" /\ Steps(i)) => loops'[i].pc = "while"
           /\ (loops[i].pc = "while" /\ Steps(i) /\ running) => BeginsIteration(i)
           /\ Terminates(i) => loops[i].pc = "while" /\ ~running
      ]_vars

\* a probe cycle and a sync cycle have both raised while the agent runs
C32_Witness ==
    /\ running
    /\ \E i, j \in Loops :
          /\ loops[i].target = "prober" /\ loops[i].pc = "except"
          /\ loops[j].target = "executor" /\ loops[j].pc = "except"

(***************************************************************************)
(* C33: a loop that is in a blocking call (an echo round, an HTTP request, *)
(* a backoff wait, the commands of a flush, a sleep) does not hold the     *)
(* lock of AgentState; the lock is held only by a loop that is in a method *)
(* of AgentState.                                                          *)
(***************************************************************************)
C33_NoBlockingUnderLock ==
    /\ \A i \in Loops : loops[i].pc \in BlockingPcs => state_lock # i
    /\ state_lock # 0 => state_lock \in Loops /\ loops[state_lock].pc \in LockPcs

\* the sync loop waits in a backoff, which it reached through get_metrics,
\* while the probe loop is in set_metrics with the lock
C33_Witness ==
    \E i, j \in Loops :
       /\ loops[i].target = "executor" /\ loops[i].pc = "send_backoff"
       /\ loops[j].target = "prober" /\ loops[j].pc = "set_metrics"
       /\ state_lock = j

(***************************************************************************)
(* C40: at any time at most one probe loop and at most one sync loop have  *)
(* been started and have not terminated; start() on a running agent        *)
(* creates no thread.                                                      *)
(***************************************************************************)
C40_OneLoopOfEachKind ==
    /\ Cardinality(AliveLoops("prober")) <= 1
    /\ Cardinality(AliveLoops("executor")) <= 1

(***************************************************************************)
(* C36: two route requests that are being served at the same time, for the *)
(* same agent and with the same topology, never both answer with a route   *)
(* to the same target that was compared with the same value of the         *)
(* history: the second request sees the value the first one has written.   *)
(***************************************************************************)
\* the request has been handled and its answer is not yet sent
Answered(t) == tasks[t].pc = "done"

EmittedFor(t) == {tasks[t].routes[i].dst_cidr[1] : i \in 1..Len(tasks[t].routes)}

\* the value of the history the request compared the cost to `target` with
PriorValue(t, target) == OldCost(tasks[t].old_costs, <<tasks[t].agent_id, target>>)

SameAgentAndTopology(t, u) ==
    /\ t # u
    /\ Answered(t) /\ Answered(u)
    /\ tasks[t].agent_id = tasks[u].agent_id
    /\ tasks[t].data = tasks[u].data

C36_HistoryUpdateIsAtomic ==
    \A t, u \in Tasks :
       SameAgentAndTopology(t, u)
          => \A target \in {PeerC, PeerT, AgentId} :
                (target \in EmittedFor(t) /\ target \in EmittedFor(u))
                   => PriorValue(t, target) # PriorValue(u, target)

\* both requests of the agent saw the same topology; the first found no
\* history and answered with routes, the second compared with the costs the
\* first had written and answered with none
C36_Witness ==
    \E t, u \in Tasks :
       /\ SameAgentAndTopology(t, u)
       /\ tasks[t].agent_id = AgentId
       /\ tasks[t].old_costs = EmptyDict
       /\ PeerT \in EmittedFor(t)
       /\ tasks[u].old_costs # EmptyDict
       /\ tasks[u].routes = << >>

====
